---------------------------- MODULE Spec2Model ----------------------------
(***************************************************************************)
(* A model of the backend core of tauri-acp-template.                      *)
(*                                                                         *)
(*  - AgentRuntime (runtime/agents.rs): ensure_started and send_prompt of  *)
(*    one runtime, called by concurrent tasks, together with the           *)
(*    AcpAgent::connect handshake (protocols/acp/agent.rs), the adapter    *)
(*    child process and the stdout reader task whose connection-lost       *)
(*    callback emits a status event (runtime/agent_host.rs).               *)
(*  - PermissionHub (runtime/permissions.rs): request, respond and the     *)
(*    timeout of a request, over a small set of operation IDs.             *)
(*                                                                         *)
(* Every await point of the code is a separate step, so that tasks         *)
(* interleave exactly where the code can be suspended.                     *)
(***************************************************************************)
EXTENDS Naturals, Sequences, FiniteSets

(***************************************************************************)
(* Bounds of the model.                                                    *)
(***************************************************************************)
\* tasks calling into one AgentRuntime, each running one operation
NumCallers == 3

\* PermissionHub::request calls, PermissionHub::respond calls, operation IDs
NumRequests == 2
NumResponds == 2
NumOps == 2

\* start_install calls, plugin IDs
NumStarts == 2
NumPlugins == 2

\* terminal/run requests
NumRuns == 1

\* update frames an adapter writes, frames its stdout pipe holds
MaxUpdates == 3
PipeCap == 2

\* tasks writing to an adapter's stdin, each writing one frame
NumWriters == 3

\* tasks that run operations of the core at the same time
NumLockTasks == 3

\* how many lines the adapter writes after the handshake, and how many of
\* them are requests
MaxDpLines == 2
MaxDpRequests == 1

\* how many lines the adapter writes to stdout
MaxHsLines == 3

\* the longest plugin id that validate_plugin_id accepts (64 in the source)
MAX_PLUGIN_ID_LEN == 3

\* components in a path given to the path resolution, symbolic links followed
\* in one canonicalization
MaxPathLen == 3
MaxLinkHops == 2

\* characters in one output chunk; the cap on the text aggregated for the reply,
\* in bytes (64 * 1024 in agent_host.rs:82)
MaxChunkChars == 2
OUTPUT_CAPTURE_LIMIT == 4

\* chunks read from one output stream of a terminal run; the capacity of the
\* channel between stream_to_channel and terminal_run (128 in terminal.rs:17)
MaxChunks == 3
OUTPUT_CHANNEL_CAPACITY == 2

\* workspaces ever created, calls into the WorkspaceManager
NumWorkspaces == 2
NumManagerCalls == 2

\* agent records ever created in one registry, ensure_runtime calls
NumAgents == 2
NumRegistryCalls == 2

Callers == 1..NumCallers
Starts == 1..NumStarts
Plugins == 1..NumPlugins
Requests == 1..NumRequests
Responds == 1..NumResponds
Ops == 1..NumOps
Runs == 1..NumRuns
Writers == 1..NumWriters
\* every ensure_started call spawns at most one adapter child
Children == 1..NumCallers

\* Option<T>
None == <<>>
Some(x) == <<x>>

VARIABLES
    \* ---- AgentRuntime fields (agents.rs:64-81)
    status,        \* status: Mutex<AgentRuntimeStatus>
    session_id,    \* session_id: Mutex<Option<SessionId>>
    connection,    \* connection: Mutex<Option<Arc<dyn AgentConnection>>>
    start_lock,    \* start_lock: Mutex<()>, None or Some(holder)
    \* ---- tasks calling the runtime
    pc,            \* position of each task in the operation it runs
    local,         \* the locals of that operation
    ret,           \* the last result each task got
    \* ---- adapter children and reader tasks
    child,         \* state of each spawned adapter's stdio
    reader,        \* state of each connection's stdout reader task
    spawned,       \* number of adapter processes spawned so far
    \* ---- what an observer sees
    events,        \* agent/status_changed events, in emission order
    \* ---- history
    assigned,      \* the values assigned to status, in assignment order
    okSids,        \* session IDs ensure_started has returned
    handshakes,    \* handshakes completed
    sent,          \* the frame each task's operation wrote to a transport
    discovered     \* connections on which an operation found the transport closed

agentVars == <<status, session_id, connection, start_lock, pc, local, ret,
               child, reader, spawned, events, assigned, okSids, handshakes,
               sent, discovered>>

VARIABLES
    \* ---- PermissionHub (permissions.rs:43-48)
    pending,       \* pending: Mutex<HashMap<OperationId, PendingPermission>>
    chan,          \* the oneshot channel of each request
    \* ---- request tasks
    rq_pc,         \* position of each request call
    rq_op,         \* its operation_id
    rq_ret,        \* its result
    \* ---- respond tasks
    rs_pc,         \* position of each respond call
    rs_op,         \* its operation_id
    rs_got,        \* the entry it removed: the request whose sender it took
    rs_ret,        \* its result
    \* ---- history
    rs_sent,       \* the decision each respond call sent on a channel
    consumed       \* how the pending entry of each request left the map

permVars == <<pending, chan, rq_pc, rq_op, rq_ret, rs_pc, rs_op, rs_sent,
              rs_got, rs_ret, consumed>>

VARIABLES
    \* ---- PluginInstaller (plugin_installer.rs:30-39)
    installing,    \* installing: Mutex<HashSet<String>>
    \* ---- start_install calls
    st_pc,         \* position of each start_install call
    st_plugin,     \* its plugin_id
    st_ret,        \* its result
    \* ---- background tasks, one per accepted call
    task,          \* position of each run_install_task
    perm,          \* the permission request of each task, as the user sees it
    decision,      \* what permission_hub.request returned to each task
    install_result,\* what plugin_manager.install returned to each task
    \* ---- what an observer sees
    plugin_events  \* acp/plugin_status_changed events, in emission order

installVars == <<installing, st_pc, st_plugin, st_ret, task, perm, decision,
                 install_result, plugin_events>>

VARIABLES
    \* ---- TerminalManager (terminal.rs:20-36)
    runs,          \* runs: Mutex<HashMap<TerminalId, TerminalControl>>
    kill_rx,       \* the oneshot channel behind each control's kill_tx
    proc,          \* the child process of each run
    \* ---- the wait task of each run (terminal.rs:109-150)
    wait_pc,       \* its position
    user_stopped,  \* its local user_stopped
    exit_rx,       \* the oneshot channel carrying TerminalExit
    \* ---- terminal/run handlers (agent.rs:523-549, agent_host.rs:167-279)
    tr_pc,         \* position of each handler
    tr_ret,        \* its result
    stdout_closed, \* the locals of the terminal_run loop
    stderr_closed,
    exit_received,
    tr_user_stopped,
    \* ---- terminal_kill calls, each one step under the runs lock
    kill_ws,       \* the workspace_id of the latest call
    kill_tid,      \* the terminal_id of the latest call
    kill_ret,      \* the result of the latest call
    \* ---- what an observer sees
    exited_events, \* terminal/exited events of each terminal_id, in order
    \* ---- history
    kill_effect,   \* what the latest call did: sent a signal or nothing
    kill_signals,  \* kill signals sent to each run
    killed_running \* whether a kill signal was sent while the child ran

termVars == <<runs, kill_rx, proc, wait_pc, user_stopped, exit_rx, tr_pc,
              tr_ret, stdout_closed, stderr_closed, exit_received,
              tr_user_stopped, kill_ws, kill_tid, kill_ret,
              exited_events, kill_effect, kill_signals,
              killed_running>>

VARIABLES
    \* ---- the adapter's request_permission for the command of each run
    tperm          \* how far that request got, and its answer

gateVars == <<tperm>>

VARIABLES
    \* ---- the adapter's stdout
    stdout_pipe,     \* the frames written and not yet read
    stdout_eof,      \* whether the adapter has closed its stdout
    \* ---- the stdout reader task (agent.rs:198-331)
    reader_pc,       \* its position
    permits,         \* the permits request_semaphore has left
    in_flight,       \* handler tasks started and not ended
    \* ---- what an observer sees
    session_updates, \* acp/session_update events, in emission order
    connection_lost, \* calls of on_connection_lost
    \* ---- history
    updates_written  \* the update frames the adapter wrote, in order

readerVars == <<stdout_pipe, stdout_eof, reader_pc, permits, in_flight,
                session_updates, connection_lost, updates_written>>

VARIABLES
    \* ---- AcpAgent.stdin (agent.rs:73)
    stdin_lock,      \* the holder of the stdin mutex
    stdin_bytes,     \* what went into the pipe, in order, one entry per write
    stdin_broken,    \* whether the adapter has closed the pipe
    \* ---- the writing tasks
    w_pc,            \* position of each writer
    w_kind,          \* the function it runs
    w_ret            \* its result

stdinVars == <<stdin_lock, stdin_bytes, stdin_broken, w_pc, w_kind, w_ret>>

VARIABLES
    \* ---- WorkspaceManager fields (workspace_manager.rs:24-29)
    workspaces,      \* workspaces: the IDs in the map
    focused,         \* focused_workspace_id
    \* ---- its callers
    next_workspace,  \* workspaces created so far; IDs are handed out in order
    create_ret,      \* result of the latest create_workspace
    m_pc,            \* position of each call
    m_op,            \* the operation it runs
    m_w,             \* its workspace_id argument
    m_ret            \* its result

managerVars == <<workspaces, focused, next_workspace, create_ret, m_pc, m_op,
                 m_w, m_ret>>

VARIABLES
    \* ---- AgentRegistry fields (agents.rs:334-339)
    agents,          \* agents: records 1..agents exist; IDs are handed out in order
    runtimes,        \* runtimes: the runtime instance of each agent, 0 for none
    \* ---- its callers
    made,            \* AgentRuntime::new calls so far; instance n is the n-th
    agent_ret,       \* result of the latest create_agent
    g_pc,            \* position of each ensure_runtime call
    g_a,             \* its agent_id argument
    g_ret            \* its result

registryVars == <<agents, runtimes, made, agent_ret, g_pc, g_a, g_ret>>

VARIABLES
    \* ---- the output streams of one terminal run (terminal.rs:90-105)
    pipe_read,       \* chunks stream_to_channel has read from each pipe, numbered 1..
    pipe_eof,        \* whether stream_to_channel has ended and dropped its sender
    out_chan,        \* the chunks in stdout_rx / stderr_rx
    \* ---- terminal_run (agent_host.rs:182-192)
    out_events,      \* chunks of the terminal/output events emitted, per stream
    out_closed       \* stdout_closed, stderr_closed

outputVars == <<pipe_read, pipe_eof, out_chan, out_events, out_closed>>

VARIABLES
    \* ---- one stream's buffer in terminal_run (agent_host.rs:184-185)
    cap_target,      \* stdout_buffer / stderr_buffer
    cap_output       \* the chunks received for the stream so far, in order

captureVars == <<cap_target, cap_output>>

VARIABLES
    \* ---- the file system around one workspace
    fs_link,         \* what the symbolic link /ws/l points to, None when absent
    \* ---- resolve_path_in_workspace and FsManager::read_text_file
    pg_pc,           \* position of the call
    pg_root,         \* its workspace root
    pg_input,        \* its path argument
    pg_ret,          \* its result
    pg_resolved,     \* read_text_file: the path resolve_path_in_workspace gave
    pg_opened        \* read_text_file: the file it read

pathVars == <<fs_link, pg_pc, pg_root, pg_input, pg_ret, pg_resolved, pg_opened>>

VARIABLES
    \* ---- the plugin cache on disk (plugins/manager.rs:5-17)
    pl_install,      \* how far plugin 1 is installed
    pl_bin_path,     \* bin_path in its install.json, None when the field is absent
    pl_link,         \* what the symbolic link l in its directory points to
    \* ---- PluginManager::resolve_bin
    rb_pc,           \* position of the call
    rb_plugin,       \* its plugin_id argument
    rb_ret           \* its result

binVars == <<pl_install, pl_bin_path, pl_link, rb_pc, rb_plugin, rb_ret>>

VARIABLES
    \* ---- PluginManager::validate_plugin_id (plugins/manager.rs:171-211)
    vp_pc,           \* position of the call
    vp_id,           \* its plugin_id argument, a sequence of characters
    vp_ret           \* its result

idVars == <<vp_pc, vp_id, vp_ret>>

VARIABLES
    \* ---- AcpAgent::connect from the handshake on (protocols/acp/agent.rs:180-198, 702-875)
    hk_pc,           \* position of connect: the handshake step, "connected" or "failed"
    hk_written,      \* the methods of the requests written to the adapter's stdin
    hk_matched,      \* the frames that ended a read_jsonrpc_response
    hk_ret,          \* the result of connect
    hk_reader,       \* the stdout reader task: "none", "running", "finished"
    hk_callbacks,    \* the host callbacks the reader task made
    \* ---- the adapter
    hk_line,         \* the line in its stdout pipe, None when the pipe is empty
    hk_lines,        \* the number of lines it has written
    hk_alive         \* FALSE once it has exited: stdin and stdout are closed

hsVars == <<hk_pc, hk_written, hk_matched, hk_ret, hk_reader, hk_callbacks,
            hk_line, hk_lines, hk_alive>>

VARIABLES
    \* ---- the stdout reader task and handle_request, line by line
    \* ---- (protocols/acp/agent.rs:201-333, 481-616)
    dp_line,         \* the line in the adapter's stdout pipe, None when it is empty
    dp_lines,        \* the number of lines the adapter has written
    dp_requests,     \* the number of them that had a method and an id
    dp_alive,        \* FALSE once the adapter has exited: stdin and stdout are closed
    dp_reader,       \* the reader task: "running" or "finished"
    dp_emitted,      \* the on_session_update calls made for the line last read
    dp_handler       \* the handler task of each request

dpVars == <<dp_line, dp_lines, dp_requests, dp_alive, dp_reader, dp_emitted, dp_handler>>

VARIABLES
    \* ---- PluginManager::install, get_status and resolve_bin on one plugin
    \* ---- directory (plugins/manager.rs:226-305, 528-773)
    mi_pc,            \* position of the install call
    mi_ret,           \* result of the last install call
    pd_dir,           \* the plugin's directory exists
    pd_package_json,  \* package.json is in it
    pd_node_modules,  \* what npm install left in node_modules
    pd_metadata,      \* install.json is in it
    gq_pc,            \* position of the caller that asks for the status and then resolves
    gq_plugin,        \* its plugin_id
    gq_status,        \* what get_status returned to it
    gq_resolve        \* what resolve_bin returned to it

statusVars == <<mi_pc, mi_ret, pd_dir, pd_package_json, pd_node_modules, pd_metadata,
                gq_pc, gq_plugin, gq_status, gq_resolve>>

VARIABLES
    \* ---- the mutexes of the core and the tasks that take them
    lk_at,            \* how many tasks are at each position of each operation
    lk_idle           \* how many tasks are in no operation

lockVars == <<lk_at, lk_idle>>

vars == <<agentVars, permVars, installVars, termVars, gateVars,
          readerVars, stdinVars, managerVars, registryVars, outputVars,
          captureVars, pathVars, binVars, idVars, hsVars, dpVars,
          statusVars, lockVars>>

(***************************************************************************)
(* AgentRuntimeStatus (api/types.rs:308-320).                              *)
(***************************************************************************)
Stopped == [tag |-> "Stopped", sid |-> None, message |-> ""]
Starting == [tag |-> "Starting", sid |-> None, message |-> ""]
Running(s) == [tag |-> "Running", sid |-> Some(s), message |-> ""]
Errored(m) == [tag |-> "Errored", sid |-> None, message |-> m]

\* Result<T, ApiError>
Ok(v) == [ok |-> TRUE, val |-> Some(v), err |-> ""]
Err(e) == [ok |-> FALSE, val |-> None, err |-> e]
NoResult == [ok |-> FALSE, val |-> None, err |-> "none"]

NoLocal == [err |-> "", k |-> None, sid |-> None, arg |-> None]

\* RuntimeAgentHost::set_status: one agent/status_changed event
set_status(st) == events' = Append(events, st)

\* an assignment to the status field
AssignStatus(st) ==
    /\ status' = st
    /\ assigned' = Append(assigned, st)

(***************************************************************************)
(* AgentRuntime::new                                                       *)
(***************************************************************************)
InitAgent ==
    /\ status = Stopped
    /\ session_id = None
    /\ connection = None
    /\ start_lock = None
    /\ pc = [c \in Callers |-> "idle"]
    /\ local = [c \in Callers |-> NoLocal]
    /\ ret = [c \in Callers |-> NoResult]
    /\ child = [k \in Children |-> "unspawned"]
    /\ reader = [k \in Children |-> "none"]
    /\ spawned = 0
    /\ events = <<>>
    /\ assigned = <<>>
    /\ okSids = {}
    /\ handshakes = 0
    /\ discovered = {}
    /\ sent = [c \in Callers |-> None]

(***************************************************************************)
(* Helpers of the task steps.                                              *)
(***************************************************************************)
Goto(c, label) == pc' = [pc EXCEPT ![c] = label]

\* the operation of task c ends with result r
Return(c, r) ==
    /\ pc' = [pc EXCEPT ![c] = "done"]
    /\ ret' = [ret EXCEPT ![c] = r]

\* a step of connect fails with e: the error propagates to ensure_started and the
\* Child value is dropped, which kills the process (kill_on_drop, agent.rs:118)
ConnectFails(c, k, e) ==
    /\ child' = [child EXCEPT ![k] = "closed"]
    /\ local' = [local EXCEPT ![c].err = e]
    /\ Goto(c, "es_set_errored")

\* outcomes of PluginManager::resolve_bin as ensure_started sees them
ResolveOutcomes == {"Ok", "PluginNotInstalled", "PluginMissingBinPath"}

\* what Command::spawn and the try_wait probe can find (agent.rs:125-154)
SpawnOutcomes == {"spawn_failed", "exited_immediately", "responsive", "silent"}

\* the next line the handshake reads from a responsive adapter (agent.rs:835-874)
HandshakeFrames == {"match_ok", "match_error", "match_no_session", "skip", "read_error"}

(***************************************************************************)
(* AgentRuntime::ensure_started (agents.rs:118-251)                        *)
(***************************************************************************)
CallEnsureStarted(c) ==
    /\ pc[c] = "idle"
    /\ UNCHANGED local
    /\ Goto(c, "es_fast")
    /\ UNCHANGED <<status, session_id, connection, start_lock, ret, child, reader,
                   spawned, events, assigned, okSids, handshakes, discovered, sent>>

\* fast path: already running (agents.rs:127-138)
ES_FastPath(c) ==
    /\ pc[c] = "es_fast"
    /\ IF session_id # None
       THEN /\ Return(c, Ok(session_id[1]))
            /\ okSids' = okSids \cup {session_id[1]}
       ELSE /\ Goto(c, "es_lock")
            /\ UNCHANGED <<ret, okSids, sent>>
    /\ UNCHANGED <<status, session_id, connection, start_lock, local, child,
                   reader, spawned, events, assigned, handshakes, discovered, sent>>

\* ES_AcquireStartLock without mutual exclusion: the lock is taken even when held
ES_AcquireStartLock_NoExclusion(c) ==
    /\ pc[c] = "es_lock"
    /\ start_lock' = Some(c)
    /\ Goto(c, "es_dcheck")
    /\ UNCHANGED <<status, session_id, connection, local, ret, child, reader,
                   spawned, events, assigned, okSids, handshakes, discovered, sent>>

\* let _start_guard = self.start_lock.lock().await (agents.rs:141)
ES_AcquireStartLock(c) ==
    /\ pc[c] = "es_lock"
    /\ start_lock = None
    /\ start_lock' = Some(c)
    /\ Goto(c, "es_dcheck")
    /\ UNCHANGED <<status, session_id, connection, local, ret, child, reader,
                   spawned, events, assigned, okSids, handshakes, discovered, sent>>

\* ES_DoubleCheck without the second look at session_id
ES_DoubleCheck_Skipped(c) ==
    /\ pc[c] = "es_dcheck"
    /\ Goto(c, "es_set_starting")
    /\ UNCHANGED <<status, session_id, connection, start_lock, local, ret, child,
                   reader, spawned, events, assigned, okSids, handshakes, discovered, sent>>

\* double-check after acquiring the lock (agents.rs:143-154); returning drops the guard
ES_DoubleCheck(c) ==
    /\ pc[c] = "es_dcheck"
    /\ IF session_id # None
       THEN /\ Return(c, Ok(session_id[1]))
            /\ okSids' = okSids \cup {session_id[1]}
            /\ start_lock' = None
       ELSE /\ Goto(c, "es_set_starting")
            /\ UNCHANGED <<ret, okSids, start_lock, sent>>
    /\ UNCHANGED <<status, session_id, connection, local, child, reader,
                   spawned, events, assigned, handshakes, discovered, sent>>

\* *status = Starting (agents.rs:156-160)
ES_SetStarting(c) ==
    /\ pc[c] = "es_set_starting"
    /\ AssignStatus(Starting)
    /\ Goto(c, "es_emit_starting")
    /\ UNCHANGED <<session_id, connection, start_lock, local, ret, child,
                   reader, spawned, events, okSids, handshakes, discovered, sent>>

\* host.set_status(Starting) (agents.rs:173)
ES_EmitStarting(c) ==
    /\ pc[c] = "es_emit_starting"
    /\ set_status(Starting)
    /\ Goto(c, "es_resolve")
    /\ UNCHANGED <<status, session_id, connection, start_lock, local, ret,
                   child, reader, spawned, assigned, okSids, handshakes, discovered, sent>>

\* plugin_manager.resolve_bin(..).await (agents.rs:176-192)
ES_ResolveBin(c) ==
    /\ pc[c] = "es_resolve"
    /\ \E r \in ResolveOutcomes :
          IF r = "Ok"
          THEN Goto(c, "connect_spawn") /\ UNCHANGED local
          ELSE /\ local' = [local EXCEPT ![c].err = r]
               /\ Goto(c, "es_set_errored")
    /\ UNCHANGED <<status, session_id, connection, start_lock, ret, child,
                   reader, spawned, events, assigned, okSids, handshakes, discovered, sent>>

\* ES_SetErrored leaving status as it was (Starting)
ES_SetErrored_StatusKept(c) ==
    /\ pc[c] = "es_set_errored"
    /\ Goto(c, "es_emit_errored")
    /\ UNCHANGED <<status, session_id, connection, start_lock, local, ret, child,
                   reader, spawned, events, assigned, okSids, handshakes, discovered, sent>>

\* the error arms (agents.rs:185-190, 211-216): *self.status.lock().await = Errored
ES_SetErrored(c) ==
    /\ pc[c] = "es_set_errored"
    /\ AssignStatus(Errored(local[c].err))
    /\ Goto(c, "es_emit_errored")
    /\ UNCHANGED <<session_id, connection, start_lock, local, ret, child,
                   reader, spawned, events, okSids, handshakes, discovered, sent>>

\* host.set_status(error_status)
ES_EmitErrored(c) ==
    /\ pc[c] = "es_emit_errored"
    /\ set_status(Errored(local[c].err))
    /\ Goto(c, "es_return_err")
    /\ UNCHANGED <<status, session_id, connection, start_lock, local, ret,
                   child, reader, spawned, assigned, okSids, handshakes, discovered, sent>>

\* return Err(e): the start guard is dropped
ES_ReturnErr(c) ==
    /\ pc[c] = "es_return_err"
    /\ Return(c, Err(local[c].err))
    /\ start_lock' = None
    /\ UNCHANGED <<status, session_id, connection, local, child, reader,
                   spawned, events, assigned, okSids, handshakes, discovered, sent>>

\* ES_StoreConnection that does not store the connection
ES_StoreConnection_Forgotten(c) ==
    /\ pc[c] = "es_store_conn"
    /\ Goto(c, "es_store_session")
    /\ UNCHANGED <<status, session_id, connection, start_lock, local, ret, child,
                   reader, spawned, events, assigned, okSids, handshakes, discovered, sent>>

\* *conn_guard = Some(connection) (agents.rs:221-224)
ES_StoreConnection(c) ==
    /\ pc[c] = "es_store_conn"
    /\ connection' = local[c].k
    /\ Goto(c, "es_store_session")
    /\ UNCHANGED <<status, session_id, start_lock, local, ret, child, reader,
                   spawned, events, assigned, okSids, handshakes, discovered, sent>>

\* *session_guard = Some(session_id) (agents.rs:225-228); the app handle stored
\* next (agents.rs:229-232) is read by no operation and is left out
ES_StoreSession(c) ==
    /\ pc[c] = "es_store_session"
    /\ session_id' = local[c].sid
    /\ Goto(c, "es_set_running")
    /\ UNCHANGED <<status, connection, start_lock, local, ret, child, reader,
                   spawned, events, assigned, okSids, handshakes, discovered, sent>>

\* *status = Running{session_id} (agents.rs:234-241)
ES_SetRunning(c) ==
    /\ pc[c] = "es_set_running"
    /\ AssignStatus(Running(local[c].sid[1]))
    /\ Goto(c, "es_emit_running")
    /\ UNCHANGED <<session_id, connection, start_lock, local, ret, child,
                   reader, spawned, events, okSids, handshakes, discovered, sent>>

\* host.set_status(running_status) (agents.rs:242)
ES_EmitRunning(c) ==
    /\ pc[c] = "es_emit_running"
    /\ set_status(Running(local[c].sid[1]))
    /\ Goto(c, "es_return_ok")
    /\ UNCHANGED <<status, session_id, connection, start_lock, local, ret,
                   child, reader, spawned, assigned, okSids, handshakes, discovered, sent>>

\* Ok(session_id) (agents.rs:250): the start guard is dropped
ES_ReturnOk(c) ==
    /\ pc[c] = "es_return_ok"
    /\ Return(c, Ok(local[c].sid[1]))
    /\ okSids' = okSids \cup {local[c].sid[1]}
    /\ start_lock' = None
    /\ UNCHANGED <<status, session_id, connection, local, child, reader,
                   spawned, events, assigned, handshakes, discovered, sent>>

(***************************************************************************)
(* AcpAgent::connect (agent.rs:99-346), called at agents.rs:202-218, and   *)
(* perform_acp_handshake (agent.rs:702-791).  The session ID the adapter   *)
(* issues is modelled as the number of the child that issued it.           *)
(***************************************************************************)
\* command.spawn() and the try_wait probe (agent.rs:125-154)
Connect_Spawn(c) ==
    /\ pc[c] = "connect_spawn"
    /\ \E o \in SpawnOutcomes :
          LET k == spawned + 1 IN
          CASE o = "spawn_failed" ->
                  /\ local' = [local EXCEPT ![c].err = "IoError"]
                  /\ Goto(c, "es_set_errored")
                  /\ UNCHANGED <<child, spawned, sent>>
            [] o = "exited_immediately" ->
                  /\ spawned' = k
                  /\ ConnectFails(c, k, "ProtocolError")
            [] OTHER ->
                  /\ spawned' = k
                  /\ child' = [child EXCEPT ![k] = o]
                  /\ local' = [local EXCEPT ![c].k = Some(k)]
                  /\ Goto(c, "hs_write_initialize")
    /\ UNCHANGED <<status, session_id, connection, start_lock, ret, reader,
                   events, assigned, okSids, handshakes, discovered, sent>>

\* write_jsonrpc_request (agent.rs:794-825): writing to a dead child fails
write_jsonrpc_request(c, next) ==
    LET k == local[c].k[1] IN
    /\ IF child[k] = "closed"
       THEN ConnectFails(c, k, "IoError")
       ELSE Goto(c, next) /\ UNCHANGED <<child, local, sent>>
    /\ UNCHANGED <<status, session_id, connection, start_lock, ret, reader,
                   spawned, events, assigned, okSids, handshakes, discovered, sent>>

\* read_jsonrpc_response (agent.rs:829-875) and the error check of its caller.
\* The read completes only when the adapter writes a line or closes stdout:
\* there is no timer in the loop, so with a silent adapter no step is enabled.
read_jsonrpc_response(c, frames, OnMatch) ==
    LET k == local[c].k[1] IN
    \/ /\ child[k] = "closed"
       /\ ConnectFails(c, k, "ProtocolError")
       /\ UNCHANGED <<reader, handshakes, sent>>
    \/ /\ child[k] = "responsive"
       /\ \E f \in frames :
             CASE f = "match_ok" -> OnMatch /\ UNCHANGED child
               [] f = "skip" ->
                     UNCHANGED <<pc, local, child, reader, handshakes, sent>>
               [] f = "read_error" ->
                     ConnectFails(c, k, "IoError") /\ UNCHANGED <<reader, handshakes, sent>>
               [] OTHER ->
                     ConnectFails(c, k, "ProtocolError") /\ UNCHANGED <<reader, handshakes, sent>>

\* the initialize response was read without error (agent.rs:733-746)
InitializeDone(c) ==
    /\ Goto(c, "hs_write_session_new")
    /\ UNCHANGED <<local, reader, handshakes, sent>>

\* result.sessionId was extracted (agent.rs:781-790), the reader task is spawned
\* (agent.rs:198) and connect returns Ok((agent, session_id)) (agent.rs:345)
SessionNewDone(c, k) ==
    /\ local' = [local EXCEPT ![c].sid = Some(k)]
    /\ reader' = [reader EXCEPT ![k] = "running"]
    /\ handshakes' = handshakes + 1
    /\ Goto(c, "es_store_conn")

Handshake_WriteInitialize(c) ==
    /\ pc[c] = "hs_write_initialize"
    /\ write_jsonrpc_request(c, "hs_read_initialize")

Handshake_ReadInitialize(c) ==
    /\ pc[c] = "hs_read_initialize"
    /\ read_jsonrpc_response(c, HandshakeFrames \ {"match_no_session"},
                             InitializeDone(c))
    /\ UNCHANGED <<status, session_id, connection, start_lock, ret, spawned,
                   events, assigned, okSids, discovered, sent>>

Handshake_WriteSessionNew(c) ==
    /\ pc[c] = "hs_write_session_new"
    /\ write_jsonrpc_request(c, "hs_read_session_new")

Handshake_ReadSessionNew(c) ==
    /\ pc[c] = "hs_read_session_new"
    /\ read_jsonrpc_response(c, HandshakeFrames, SessionNewDone(c, local[c].k[1]))
    /\ UNCHANGED <<status, session_id, connection, start_lock, ret, spawned,
                   events, assigned, okSids, discovered, sent>>

(***************************************************************************)
(* AgentRuntime::send_prompt (agents.rs:266-287) and AcpAgent::send_prompt *)
(* (agent.rs:351-409).                                                     *)
(***************************************************************************)
SendOk == [ok |-> TRUE, val |-> None, err |-> ""]

CallSendPrompt(c) ==
    /\ pc[c] = "idle"
    /\ UNCHANGED local
    /\ Goto(c, "sp_session")
    /\ UNCHANGED <<status, session_id, connection, start_lock, ret, child, reader,
                   spawned, events, assigned, okSids, handshakes, discovered, sent>>

\* session_guard.clone().ok_or_else(.. "Agent not running") (agents.rs:268-275)
\* a send_prompt that goes on to the transport without a session
SP_ReadSession_Unchecked(c) ==
    /\ pc[c] = "sp_session"
    /\ local' = [local EXCEPT ![c].sid = IF session_id = None THEN Some(1) ELSE session_id]
    /\ Goto(c, "sp_connection")
    /\ UNCHANGED ret
    /\ UNCHANGED <<status, session_id, connection, start_lock, child, reader,
                   spawned, events, assigned, okSids, handshakes, discovered, sent>>

SP_ReadSession(c) ==
    /\ pc[c] = "sp_session"
    /\ IF session_id = None
       THEN Return(c, Err("ProtocolError: Agent not running")) /\ UNCHANGED local
       ELSE /\ local' = [local EXCEPT ![c].sid = session_id]
            /\ Goto(c, "sp_connection")
            /\ UNCHANGED ret
    /\ UNCHANGED <<status, session_id, connection, start_lock, child, reader,
                   spawned, events, assigned, okSids, handshakes, discovered, sent>>

\* conn_guard.clone().ok_or_else(.. "Agent connection not available") (agents.rs:278-283)
SP_ReadConnection(c) ==
    /\ pc[c] = "sp_connection"
    /\ IF connection = None
       THEN Return(c, Err("ProtocolError: Agent connection not available"))
            /\ UNCHANGED local
       ELSE /\ local' = [local EXCEPT ![c].k = connection]
            /\ Goto(c, "sp_write")
            /\ UNCHANGED ret
    /\ UNCHANGED <<status, session_id, connection, start_lock, child, reader,
                   spawned, events, assigned, okSids, handshakes, discovered, sent>>

\* connection.send_prompt(session_id, prompt).await (agents.rs:286): the write to
\* the child's stdin fails when the child is gone, and the error is returned as is
SP_Write(c) ==
    /\ pc[c] = "sp_write"
    /\ LET k == local[c].k[1] IN
       IF child[k] = "closed"
       THEN /\ Return(c, Err("IoError"))
            /\ discovered' = discovered \cup {k}
            /\ UNCHANGED sent
       ELSE /\ Return(c, SendOk)
            /\ sent' = [sent EXCEPT ![c] =
                    Some([method |-> "session/prompt", sid |-> local[c].sid[1], k |-> k])]
            /\ UNCHANGED discovered
    /\ UNCHANGED <<status, session_id, connection, start_lock, local, child,
                   reader, spawned, events, assigned, okSids, handshakes>>

\* session IDs a caller may pass to stop_turn: the sessions of the first two
\* adapters, so that both the active session and a stale or foreign one occur
SessionIds == {1, 2}

\* stop_turn(session_id) up to its session check (agents.rs:301-316): "Agent not
\* running" without a session, InvalidInput for a session other than the
\* active one
CallStopTurn(c, sid) ==
    /\ pc[c] = "idle"
    /\ IF session_id = None
       THEN /\ Return(c, Err("ProtocolError: Agent not running"))
            /\ local' = [local EXCEPT ![c].arg = Some(sid)]
       ELSE IF session_id # Some(sid)
       THEN /\ Return(c, Err("InvalidInput"))
            /\ local' = [local EXCEPT ![c].arg = Some(sid)]
       ELSE /\ local' = [local EXCEPT ![c].arg = Some(sid), ![c].sid = session_id]
            /\ Goto(c, "st_connection")
            /\ UNCHANGED ret
    /\ UNCHANGED <<status, session_id, connection, start_lock, child, reader,
                   spawned, events, assigned, okSids, handshakes, discovered, sent>>

\* conn_guard.clone().ok_or_else(.. "Agent connection not available") (agents.rs:319-324)
ST_ReadConnection(c) ==
    /\ pc[c] = "st_connection"
    /\ IF connection = None
       THEN Return(c, Err("ProtocolError: Agent connection not available"))
            /\ UNCHANGED local
       ELSE /\ local' = [local EXCEPT ![c].k = connection]
            /\ Goto(c, "st_cancel")
            /\ UNCHANGED ret
    /\ UNCHANGED <<status, session_id, connection, start_lock, child, reader,
                   spawned, events, assigned, okSids, handshakes, discovered, sent>>

\* a stop_turn that returns Ok without the cancel
ST_Cancel_NotSent(c) ==
    /\ pc[c] = "st_cancel"
    /\ Return(c, SendOk)
    /\ UNCHANGED <<status, session_id, connection, start_lock, local, child, reader,
                   spawned, events, assigned, okSids, handshakes, discovered, sent>>

\* connection.cancel_turn(session_id).await (agents.rs:327), which writes the
\* session/cancel notification and returns (agent.rs:411-453): the write fails
\* when the child is gone
ST_Cancel(c) ==
    /\ pc[c] = "st_cancel"
    /\ LET k == local[c].k[1] IN
       IF child[k] = "closed"
       THEN /\ Return(c, Err("IoError"))
            /\ discovered' = discovered \cup {k}
            /\ UNCHANGED sent
       ELSE /\ Return(c, SendOk)
            /\ sent' = [sent EXCEPT ![c] =
                    Some([method |-> "session/cancel", sid |-> local[c].arg[1], k |-> k])]
            /\ UNCHANGED discovered
    /\ UNCHANGED <<status, session_id, connection, start_lock, local, child,
                   reader, spawned, events, assigned, okSids, handshakes>>

(***************************************************************************)
(* The adapter process and the stdout reader task.                         *)
(***************************************************************************)
\* the adapter exits or crashes: its stdout closes
AdapterClose(k) ==
    /\ child[k] \in {"responsive", "silent"}
    /\ child' = [child EXCEPT ![k] = "closed"]
    /\ UNCHANGED <<status, session_id, connection, start_lock, pc, local, ret,
                   reader, spawned, events, assigned, okSids, handshakes, discovered, sent>>

\* RuntimeAgentHost::on_connection_lost (agent_host.rs:133-144), called by the
\* reader task when stdout closes (agent.rs:328-333): it emits Stopped and
\* touches no field of the AgentRuntime
on_connection_lost(k) ==
    /\ reader[k] = "running"
    /\ child[k] = "closed"
    /\ set_status(Stopped)
    /\ reader' = [reader EXCEPT ![k] = "finished"]
    /\ UNCHANGED <<status, session_id, connection, start_lock, pc, local, ret,
                   child, spawned, assigned, okSids, handshakes, discovered, sent>>

(***************************************************************************)
(* PermissionHub (runtime/permissions.rs).  A request task runs            *)
(* PermissionHub::request once, a respond task runs PermissionHub::respond *)
(* once (the permission_respond command, commands/permissions.rs:28-35).   *)
(* The operation ID of a request is its caller's choice: the installer     *)
(* draws a fresh one, an adapter may name any (agent.rs:496,               *)
(* agent_host.rs:150-153), so two requests may carry the same ID.          *)
(*                                                                         *)
(* chan[r] is the oneshot channel request r created:                       *)
(*   "none"        not created yet                                         *)
(*   "open"        sender and receiver alive, nothing sent                 *)
(*   a decision    sent and not yet received                               *)
(*   "received"    the request took the decision                           *)
(*   "tx_dropped"  the sender was dropped without sending                  *)
(*   "rx_dropped"  the receiver was dropped (a value in it is dropped too) *)
(***************************************************************************)
Decisions == {"AllowOnce", "Deny"}

OperationNotFound == "OperationNotFound"

InitPerm ==
    /\ pending = [op \in Ops |-> None]
    /\ chan = [r \in Requests |-> "none"]
    /\ rq_pc = [r \in Requests |-> "idle"]
    /\ rq_op = [r \in Requests |-> None]
    /\ rq_ret = [r \in Requests |-> NoResult]
    /\ rs_pc = [t \in Responds |-> "idle"]
    /\ rs_op = [t \in Responds |-> None]
    /\ rs_sent = [t \in Responds |-> None]
    /\ rs_got = [t \in Responds |-> None]
    /\ rs_ret = [t \in Responds |-> "none"]
    /\ consumed = [r \in Requests |-> <<>>]

\* Calls are numbered in the order they arrive and operation IDs in the order
\* they are first named: request r is the r-th call of request, respond t the
\* t-th call of respond, and an ID not named before is the next number.
UsedOps ==
    {rq_op[r][1] : r \in {x \in Requests : rq_op[x] # None}}
        \cup {rs_op[t][1] : t \in {x \in Responds : rs_op[x] # None}}

NextOps == UsedOps \cup {op \in Ops : op = Cardinality(UsedOps) + 1}

\* the channel of a request whose sender is dropped unsent
DropSender(ch, r) == IF ch[r] = "open" THEN [ch EXCEPT ![r] = "tx_dropped"] ELSE ch

\* pending.remove(&operation_id) by the cleanup of request r: the entry removed,
\* whichever request stored it, is dropped with its sender
CleanupRemove(r, cause) ==
    LET op == rq_op[r][1]
        old == pending[op] IN
    /\ pending' = [pending EXCEPT ![op] = None]
    /\ chan' = [(IF old = None THEN chan ELSE DropSender(chan, old[1]))
                   EXCEPT ![r] = "rx_dropped"]
    /\ consumed' = IF old = None THEN consumed
                   ELSE [consumed EXCEPT ![old[1]] =
                            Append(@, IF old[1] = r THEN cause ELSE "other_cleanup")]

\* oneshot::channel(), pending.insert(operation_id, PendingPermission { tx })
\* (permissions.rs:86-92) and self.app.emit(EVENT_PERMISSION_REQUESTED, &event)
\* (permissions.rs:108), which is not an await point.  HashMap::insert replaces
\* an entry stored under the same key, and the sender it held is dropped.  With
\* the event emitted the request goes on to timeout(PERMISSION_TIMEOUT, rx),
\* otherwise to the lock of its cleanup.
Rq_Insert(r, op) ==
    /\ rq_pc[r] = "idle"
    /\ \A x \in Requests : x < r => rq_pc[x] # "idle"
    /\ op \in NextOps
    /\ rq_op' = [rq_op EXCEPT ![r] = Some(op)]
    /\ pending' = [pending EXCEPT ![op] = Some(r)]
    /\ LET old == pending[op] IN
       /\ chan' = [(IF old = None THEN chan ELSE DropSender(chan, old[1]))
                      EXCEPT ![r] = "open"]
       /\ consumed' = IF old = None THEN consumed
                      ELSE [consumed EXCEPT ![old[1]] = Append(@, "replaced")]
    /\ \E emitted \in BOOLEAN :
          rq_pc' = [rq_pc EXCEPT ![r] = IF emitted THEN "rq_await" ELSE "rq_emit_failed"]
    /\ UNCHANGED <<rq_ret, rs_pc, rs_op, rs_sent, rs_got,
                   rs_ret>>

\* clean up on emit failure (permissions.rs:109-114)
Rq_EmitFailureCleanup(r) ==
    /\ rq_pc[r] = "rq_emit_failed"
    /\ CleanupRemove(r, "emit_failure")
    /\ rq_pc' = [rq_pc EXCEPT ![r] = "done"]
    /\ rq_ret' = [rq_ret EXCEPT ![r] = Err("IoError: emit failed")]
    /\ UNCHANGED <<rq_op, rs_pc, rs_op, rs_sent, rs_got,
                   rs_ret>>

\* a poll of timeout(PERMISSION_TIMEOUT, rx) (permissions.rs:120): the receiver is
\* polled first; only when it is not ready does the poll look at the timer,
\* which has run out (third disjunct) once PERMISSION_TIMEOUT has passed.
Rq_Await(r) ==
    /\ rq_pc[r] = "rq_await"
    /\ \/ /\ chan[r] \in Decisions
          /\ rq_ret' = [rq_ret EXCEPT ![r] = Ok(chan[r])]
          /\ chan' = [chan EXCEPT ![r] = "received"]
          /\ rq_pc' = [rq_pc EXCEPT ![r] = "done"]
       \/ /\ chan[r] = "tx_dropped"
          /\ rq_ret' = [rq_ret EXCEPT ![r] = Err("IoError: cancelled")]
          /\ chan' = [chan EXCEPT ![r] = "rx_dropped"]
          /\ rq_pc' = [rq_pc EXCEPT ![r] = "done"]
       \/ /\ chan[r] = "open"
          /\ rq_pc' = [rq_pc EXCEPT ![r] = "rq_elapsed"]
          /\ UNCHANGED <<rq_ret, chan>>
    /\ UNCHANGED <<pending, rq_op, rs_pc, rs_op, rs_sent, rs_got,
                   rs_ret,
                   consumed>>

\* the poll ends with Err(Elapsed): the Timeout future and the receiver in it are
\* dropped, whatever reached the channel since the receiver was polled
Rq_Elapsed(r) ==
    /\ rq_pc[r] = "rq_elapsed"
    /\ chan' = [chan EXCEPT ![r] = "rx_dropped"]
    /\ rq_pc' = [rq_pc EXCEPT ![r] = "rq_timeout_cleanup"]
    /\ UNCHANGED <<pending, rq_op, rq_ret, rs_pc, rs_op, rs_sent, rs_got,
                   rs_ret, consumed>>

\* a timeout path that reports the error and leaves the map alone
Rq_TimeoutCleanup_EntryKept(r) ==
    /\ rq_pc[r] = "rq_timeout_cleanup"
    /\ rq_pc' = [rq_pc EXCEPT ![r] = "done"]
    /\ rq_ret' = [rq_ret EXCEPT ![r] = Err("IoError: timed out")]
    /\ UNCHANGED <<pending, chan, consumed, rq_op, rs_pc, rs_op, rs_sent, rs_got,
                   rs_ret>>

\* timeout: clean up the pending entry and report the error (permissions.rs:134-144)
Rq_TimeoutCleanup(r) ==
    /\ rq_pc[r] = "rq_timeout_cleanup"
    /\ CleanupRemove(r, "timeout")
    /\ rq_pc' = [rq_pc EXCEPT ![r] = "done"]
    /\ rq_ret' = [rq_ret EXCEPT ![r] = Err("IoError: timed out")]
    /\ UNCHANGED <<rq_op, rs_pc, rs_op, rs_sent, rs_got,
                   rs_ret>>

\* a respond that reads the entry and leaves it in the map
respond_EntryKept(t, op, d) ==
    /\ rs_pc[t] = "idle"
    /\ \A x \in Responds : x < t => rs_pc[x] # "idle"
    /\ op \in NextOps
    /\ rs_op' = [rs_op EXCEPT ![t] = Some(op)]
    /\ rs_got' = [rs_got EXCEPT ![t] = pending[op]]
    /\ IF pending[op] # None /\ chan[pending[op][1]] = "open"
       THEN /\ chan' = [chan EXCEPT ![pending[op][1]] = d]
            /\ rs_ret' = [rs_ret EXCEPT ![t] = "Ok"]
            /\ rs_sent' = [rs_sent EXCEPT ![t] = Some(d)]
       ELSE /\ rs_ret' = [rs_ret EXCEPT ![t] = OperationNotFound]
            /\ UNCHANGED <<chan, rs_sent>>
    /\ rs_pc' = [rs_pc EXCEPT ![t] = "done"]
    /\ UNCHANGED <<pending, consumed, rq_pc, rq_op, rq_ret>>

\* a respond that sends on the sender of any pending entry, whatever its ID
respond_AnySlot(t, op, d) ==
    /\ rs_pc[t] = "idle"
    /\ \A x \in Responds : x < t => rs_pc[x] # "idle"
    /\ op \in NextOps
    /\ rs_op' = [rs_op EXCEPT ![t] = Some(op)]
    /\ \E o \in Ops :
          /\ o = op \/ pending[o] # None
          /\ rs_got' = [rs_got EXCEPT ![t] = pending[o]]
          /\ pending' = [pending EXCEPT ![o] = None]
          /\ consumed' = IF pending[o] = None THEN consumed
                         ELSE [consumed EXCEPT ![pending[o][1]] = Append(@, "respond")]
          /\ IF pending[o] # None /\ chan[pending[o][1]] = "open"
             THEN /\ chan' = [chan EXCEPT ![pending[o][1]] = d]
                  /\ rs_ret' = [rs_ret EXCEPT ![t] = "Ok"]
                  /\ rs_sent' = [rs_sent EXCEPT ![t] = Some(d)]
             ELSE /\ rs_ret' = [rs_ret EXCEPT ![t] = OperationNotFound]
                  /\ UNCHANGED <<chan, rs_sent>>
    /\ rs_pc' = [rs_pc EXCEPT ![t] = "done"]
    /\ UNCHANGED <<rq_pc, rq_op, rq_ret>>

\* PermissionHub::respond (permissions.rs:162-193).  After the lock is taken the
\* call runs to its return without an await: the entry is removed
\* (permissions.rs:167-170) and the decision sent on the sender it held, which
\* fails when the receiver is gone (permissions.rs:176-181); no entry is
\* OperationNotFound too (permissions.rs:187-191).
respond(t, op, d) ==
    /\ rs_pc[t] = "idle"
    /\ \A x \in Responds : x < t => rs_pc[x] # "idle"
    /\ op \in NextOps
    /\ rs_op' = [rs_op EXCEPT ![t] = Some(op)]
    /\ rs_got' = [rs_got EXCEPT ![t] = pending[op]]
    /\ pending' = [pending EXCEPT ![op] = None]
    /\ consumed' = IF pending[op] = None THEN consumed
                   ELSE [consumed EXCEPT ![pending[op][1]] = Append(@, "respond")]
    /\ IF pending[op] # None /\ chan[pending[op][1]] = "open"
       THEN /\ chan' = [chan EXCEPT ![pending[op][1]] = d]
            /\ rs_ret' = [rs_ret EXCEPT ![t] = "Ok"]
            /\ rs_sent' = [rs_sent EXCEPT ![t] = Some(d)]
       ELSE /\ rs_ret' = [rs_ret EXCEPT ![t] = OperationNotFound]
            /\ UNCHANGED <<chan, rs_sent>>
    /\ rs_pc' = [rs_pc EXCEPT ![t] = "done"]
    /\ UNCHANGED <<rq_pc, rq_op, rq_ret>>

RequestStep(r) ==
    \/ Rq_EmitFailureCleanup(r)
    \/ Rq_Await(r)
    \/ Rq_Elapsed(r)
    \/ Rq_TimeoutCleanup(r)

NextPerm ==
    \/ \E r \in Requests, op \in Ops : Rq_Insert(r, op)
    \/ \E r \in Requests : RequestStep(r)
    \/ \E t \in Responds, op \in Ops, d \in Decisions : respond(t, op, d)


(***************************************************************************)
(* PluginInstaller (runtime/plugin_installer.rs).  Start call s is the     *)
(* s-th call of start_install; the operation ID it generates (a fresh      *)
(* UUID, plugin_installer.rs:107) is modelled as s.  An accepted call      *)
(* spawns the background task run_install_task, which asks the             *)
(* PermissionHub for a decision under that operation ID.  Of the hub the   *)
(* task and the user see: the request is pending once registered, a        *)
(* respond call for a pending ID is accepted, and the request returns the  *)
(* accepted decision or an IoError (emit failure, timeout; a decision      *)
(* accepted while the timeout fires is dropped with the channel).          *)
(***************************************************************************)
\* plugin ID 0 stands for an ID that validate_plugin_id rejects
InvalidPluginId == 0

PluginIds == Plugins \cup {InvalidPluginId}

\* PluginManager::validate_plugin_id (plugins/manager.rs:171-205)
validate_plugin_id(p) == p \in Plugins

InitInstall ==
    /\ installing = {}
    /\ st_pc = [s \in Starts |-> "idle"]
    /\ st_plugin = [s \in Starts |-> None]
    /\ st_ret = [s \in Starts |-> "none"]
    /\ task = [s \in Starts |-> "none"]
    /\ perm = [s \in Starts |-> "none"]
    /\ decision = [s \in Starts |-> "none"]
    /\ install_result = [s \in Starts |-> "none"]
    /\ plugin_events = <<>>

\* what npm install left behind: its exit status, whether stderr is longer
\* than max_len bytes, and whether byte max_len of stderr starts a character
NpmOutputs == [success : BOOLEAN, long : BOOLEAN, boundary : BOOLEAN]

\* PluginManager::run_npm_install (plugins/manager.rs:347-403): on failure the
\* error message takes &stderr[..max_len] when stderr is longer than max_len,
\* and slicing a str inside a character panics
run_npm_install(o) ==
    IF o.success THEN "Ok"
    ELSE IF o.long /\ ~o.boundary THEN "panic"
    ELSE "Err"

\* start_install up to the lock (plugin_installer.rs:86-96): validation
Start_Validate(s, p) ==
    /\ st_pc[s] = "idle"
    /\ \A x \in Starts : x < s => st_pc[x] # "idle"
    /\ st_plugin' = [st_plugin EXCEPT ![s] = Some(p)]
    /\ IF validate_plugin_id(p)
       THEN /\ st_pc' = [st_pc EXCEPT ![s] = "si_lock"]
            /\ UNCHANGED st_ret
       ELSE /\ st_pc' = [st_pc EXCEPT ![s] = "done"]
            /\ st_ret' = [st_ret EXCEPT ![s] = "InvalidInput"]
    /\ UNCHANGED <<installing, task, perm, decision, install_result, plugin_events>>

\* a start_install that marks and spawns without looking at the set
Start_CheckAndMark_Unchecked(s) ==
    /\ st_pc[s] = "si_lock"
    /\ installing' = installing \cup {st_plugin[s][1]}
    /\ task' = [task EXCEPT ![s] = "spawned"]
    /\ st_ret' = [st_ret EXCEPT ![s] = "Ok"]
    /\ st_pc' = [st_pc EXCEPT ![s] = "done"]
    /\ UNCHANGED <<st_plugin, perm, decision, install_result, plugin_events>>

\* under the installing lock (plugin_installer.rs:95-104), then the operation ID,
\* the spawn of the background task and the return (plugin_installer.rs:106-124)
Start_CheckAndMark(s) ==
    /\ st_pc[s] = "si_lock"
    /\ IF st_plugin[s][1] \in installing
       THEN /\ st_ret' = [st_ret EXCEPT ![s] = "PluginInstallInProgress"]
            /\ UNCHANGED <<installing, task>>
       ELSE /\ installing' = installing \cup {st_plugin[s][1]}
            /\ task' = [task EXCEPT ![s] = "spawned"]
            /\ st_ret' = [st_ret EXCEPT ![s] = "Ok"]
    /\ st_pc' = [st_pc EXCEPT ![s] = "done"]
    /\ UNCHANGED <<st_plugin, perm, decision, install_result, plugin_events>>

\* run_install_task calls permission_hub.request (plugin_installer.rs:141-144):
\* the request is registered and acp/permission_requested emitted
Task_RequestPermission(s) ==
    /\ task[s] = "spawned"
    /\ perm' = [perm EXCEPT ![s] = "pending"]
    /\ task' = [task EXCEPT ![s] = "waiting"]
    /\ UNCHANGED <<installing, st_pc, st_plugin, st_ret, decision, install_result,
                   plugin_events>>

\* the user answers: permission_respond for a pending operation ID is accepted
\* (permissions.rs:162-186)
User_Respond(s, d) ==
    /\ perm[s] = "pending"
    /\ perm' = [perm EXCEPT ![s] = d]
    /\ UNCHANGED <<installing, st_pc, st_plugin, st_ret, task, decision,
                   install_result, plugin_events>>

\* permission_hub.request returns (permissions.rs:108-145) and the task matches
\* on the decision (plugin_installer.rs:146-209): AllowOnce goes on to install,
\* Deny and Err go to the cleanup
Task_Decision(s) ==
    /\ task[s] = "waiting"
    /\ \/ /\ perm[s] \in Decisions
          /\ decision' = [decision EXCEPT ![s] = perm[s]]
       \/ decision' = [decision EXCEPT ![s] = "Err"]
    /\ task' = [task EXCEPT ![s] = IF decision'[s] = "AllowOnce" THEN "install"
                                   ELSE "remove"]
    /\ UNCHANGED <<installing, st_pc, st_plugin, st_ret, perm, install_result,
                   plugin_events>>

\* plugin_manager.install(..).await (plugin_installer.rs:153-156,
\* plugins/manager.rs:528-630); a panic ends the task where it is
Task_Install(s) ==
    /\ task[s] = "install"
    /\ \E o \in NpmOutputs :
          /\ install_result' = [install_result EXCEPT ![s] = run_npm_install(o)]
          /\ task' = [task EXCEPT ![s] = IF run_npm_install(o) = "panic"
                                         THEN "panicked" ELSE "emit"]
    /\ UNCHANGED <<installing, st_pc, st_plugin, st_ret, perm, decision, plugin_events>>

\* get_status, the event with the optional error, and app.emit
\* (plugin_installer.rs:158-195)
Task_EmitStatus(s) ==
    /\ task[s] = "emit"
    /\ plugin_events' = Append(plugin_events,
                               [operation_id |-> s,
                                error |-> install_result[s] = "Err"])
    /\ task' = [task EXCEPT ![s] = "remove"]
    /\ UNCHANGED <<installing, st_pc, st_plugin, st_ret, perm, decision,
                   install_result>>

\* always remove from installing set (plugin_installer.rs:211-215)
Task_Remove(s) ==
    /\ task[s] = "remove"
    /\ installing' = installing \ {st_plugin[s][1]}
    /\ task' = [task EXCEPT ![s] = "done"]
    /\ UNCHANGED <<st_pc, st_plugin, st_ret, perm, decision, install_result,
                   plugin_events>>

InstallTaskStep(s) ==
    \/ Task_RequestPermission(s)
    \/ Task_Decision(s)
    \/ Task_Install(s)
    \/ Task_EmitStatus(s)
    \/ Task_Remove(s)

NextInstall ==
    \/ \E s \in Starts, p \in PluginIds : Start_Validate(s, p)
    \/ \E s \in Starts : Start_CheckAndMark(s)
    \/ \E s \in Starts : InstallTaskStep(s)
    \/ \E s \in Starts, d \in Decisions : User_Respond(s, d)

(***************************************************************************)
(* TerminalManager (runtime/terminal.rs) and the terminal/run reverse-RPC  *)
(* (protocols/acp/agent.rs handle_request, runtime/agent_host.rs           *)
(* terminal_run).  Run t is the t-th terminal/run request the reader hands *)
(* to a handler; the terminal ID spawn_run generates for it (a fresh UUID, *)
(* terminal.rs:63) is modelled as t, so the ID of a request that spawned   *)
(* nothing is an ID no run ever had.  The output chunks the handler        *)
(* forwards as terminal/output events are left out: of the two pipes only  *)
(* their closing is modelled.                                              *)
(***************************************************************************)
\* terminal ID 0 stands for a blank terminal_id
EmptyTerminalId == 0

TerminalIds == Runs \cup {EmptyTerminalId}

\* the command parameter of a terminal/run request: absent, blank, or a command
Commands == {"absent", "blank", "command"}

\* the workspace_id argument of terminal_kill: blank, not open, or open
WorkspaceArgs == {"blank", "missing", "open"}

InitTerm ==
    /\ runs = [t \in Runs |-> "absent"]
    /\ kill_rx = [t \in Runs |-> "empty"]
    /\ proc = [t \in Runs |-> "none"]
    /\ wait_pc = [t \in Runs |-> "none"]
    /\ user_stopped = [t \in Runs |-> FALSE]
    /\ exit_rx = [t \in Runs |-> None]
    /\ tr_pc = [t \in Runs |-> "idle"]
    /\ tr_ret = [t \in Runs |-> "none"]
    /\ stdout_closed = [t \in Runs |-> FALSE]
    /\ stderr_closed = [t \in Runs |-> FALSE]
    /\ exit_received = [t \in Runs |-> FALSE]
    /\ tr_user_stopped = [t \in Runs |-> FALSE]
    /\ kill_ws = "none"
    /\ kill_tid = None
    /\ kill_effect = "none"
    /\ kill_ret = "none"
    /\ exited_events = [t \in Runs |-> <<>>]
    /\ kill_signals = [t \in Runs |-> 0]
    /\ killed_running = [t \in Runs |-> FALSE]

InitGate == tperm = [t \in Runs |-> "none"]

\* the variables of the wait tasks and of the kill calls
waitVars == <<runs, kill_rx, proc, wait_pc, user_stopped, exit_rx>>
killVars == <<kill_ws, kill_tid, kill_ret, kill_effect, kill_signals,
              killed_running>>
loopVars == <<stdout_closed, stderr_closed, exit_received, tr_user_stopped>>

\* TerminalManager::spawn_run (terminal.rs:54-158): a blank command is
\* rejected; otherwise the child is spawned, its control is inserted into
\* runs and the wait task is started
spawn_run(t, command, spawn_ok) ==
    IF command = "blank" THEN
        /\ tr_ret' = [tr_ret EXCEPT ![t] = "InvalidInput"]
        /\ tr_pc' = [tr_pc EXCEPT ![t] = "done"]
        /\ UNCHANGED <<runs, proc, wait_pc>>
    ELSE IF ~spawn_ok THEN
        /\ tr_ret' = [tr_ret EXCEPT ![t] = "IoError"]
        /\ tr_pc' = [tr_pc EXCEPT ![t] = "done"]
        /\ UNCHANGED <<runs, proc, wait_pc>>
    ELSE
        /\ proc' = [proc EXCEPT ![t] = "running"]
        /\ runs' = [runs EXCEPT ![t] = "some"]
        /\ wait_pc' = [wait_pc EXCEPT ![t] = "select"]
        /\ tr_pc' = [tr_pc EXCEPT ![t] = "loop"]
        /\ UNCHANGED tr_ret

\* handle_request, METHOD_TERMINAL_RUN (agent.rs:523-549), calling
\* RuntimeAgentHost::terminal_run (agent_host.rs:167-176): a request without
\* a command is answered with an error, any other goes to spawn_run
HandleRequest_TerminalRun(t, command) ==
    /\ tr_pc[t] = "idle"
    /\ \A x \in Runs : x < t => tr_pc[x] # "idle"
    /\ IF command = "absent"
       THEN /\ tr_ret' = [tr_ret EXCEPT ![t] = "MissingCommand"]
            /\ tr_pc' = [tr_pc EXCEPT ![t] = "done"]
            /\ UNCHANGED <<runs, proc, wait_pc>>
       ELSE \E spawn_ok \in BOOLEAN : spawn_run(t, command, spawn_ok)
    /\ UNCHANGED <<kill_rx, user_stopped, exit_rx, loopVars,
                   killVars, exited_events>>

\* the child exits by itself
Child_Exit(t) ==
    /\ proc[t] = "running"
    /\ proc' = [proc EXCEPT ![t] = "exited"]
    /\ UNCHANGED <<runs, kill_rx, wait_pc, user_stopped, exit_rx,
                   tr_pc, tr_ret, loopVars, killVars, exited_events>>

\* what child.try_wait() can return (terminal.rs:114)
TryWaitOutcomes(t) ==
    IF proc[t] = "running" THEN {"None", "Err"} ELSE {"Some", "Err"}

\* the select! of the wait task (terminal.rs:111-133): child.wait() resolves
\* once the child has exited, kill_rx once a kill signal was sent; when both
\* are ready either branch may be taken.  (kill_rx would also resolve when
\* its sender is dropped, and that happens only when the task itself removes
\* the control.)
WT_Select(t) ==
    /\ wait_pc[t] = "select"
    /\ \/ /\ proc[t] = "exited"
          /\ wait_pc' = [wait_pc EXCEPT ![t] = "send_exit"]
          /\ UNCHANGED <<user_stopped, kill_rx>>
       \/ /\ kill_rx[t] = "sent"
          /\ kill_rx' = [kill_rx EXCEPT ![t] = "received"]
          /\ \E tw \in TryWaitOutcomes(t) :
                IF tw = "Some"
                THEN /\ wait_pc' = [wait_pc EXCEPT ![t] = "send_exit"]
                     /\ UNCHANGED user_stopped
                ELSE /\ user_stopped' = [user_stopped EXCEPT ![t] = TRUE]
                     /\ wait_pc' = [wait_pc EXCEPT ![t] = "kill_child"]
    /\ UNCHANGED <<runs, proc, exit_rx, tr_pc, tr_ret, loopVars,
                   killVars, exited_events>>

\* child.kill().await; child.wait().await (terminal.rs:118-130)
WT_KillChild(t) ==
    /\ wait_pc[t] = "kill_child"
    /\ proc' = [proc EXCEPT ![t] = IF @ = "running" THEN "killed" ELSE @]
    /\ wait_pc' = [wait_pc EXCEPT ![t] = "send_exit"]
    /\ UNCHANGED <<runs, kill_rx, user_stopped, exit_rx, tr_pc,
                   tr_ret, loopVars, killVars, exited_events>>

\* exit_tx.send(TerminalExit { exit_code, user_stopped }) (terminal.rs:143-146)
WT_SendExit(t) ==
    /\ wait_pc[t] = "send_exit"
    /\ exit_rx' = [exit_rx EXCEPT ![t] = Some(user_stopped[t])]
    /\ wait_pc' = [wait_pc EXCEPT ![t] = "remove"]
    /\ UNCHANGED <<runs, kill_rx, proc, user_stopped, tr_pc,
                   tr_ret, loopVars, killVars, exited_events>>

\* a wait task that ends with the control left in the registry
WT_Remove_ControlKept(t) ==
    /\ wait_pc[t] = "remove"
    /\ wait_pc' = [wait_pc EXCEPT ![t] = "done"]
    /\ UNCHANGED <<runs, kill_rx, proc, user_stopped, exit_rx, tr_pc,
                   tr_ret, loopVars, killVars, exited_events>>

\* runs.lock().await; runs.remove(&terminal_id) (terminal.rs:148-149)
WT_Remove(t) ==
    /\ wait_pc[t] = "remove"
    /\ runs' = [runs EXCEPT ![t] = "absent"]
    /\ wait_pc' = [wait_pc EXCEPT ![t] = "done"]
    /\ UNCHANGED <<kill_rx, proc, user_stopped, exit_rx, tr_pc,
                   tr_ret, loopVars, killVars, exited_events>>

WaitTaskStep(t) ==
    \/ WT_Select(t)
    \/ WT_KillChild(t)
    \/ WT_SendExit(t)
    \/ WT_Remove(t)

\* the terminal_run loop, a pipe reaching its end (agent_host.rs:194-239).
\* Each branch of the loop sets its own flag and the loop ends when all three
\* are set, so the order of the branches shows in nothing but the flags: the
\* model takes them in one order, the exit, then stdout, then stderr.
TR_StdoutClosed(t) ==
    /\ tr_pc[t] = "loop"
    /\ ~stdout_closed[t]
    /\ exit_received[t]
    /\ stdout_closed' = [stdout_closed EXCEPT ![t] = TRUE]
    /\ UNCHANGED <<waitVars, tr_pc, tr_ret, stderr_closed, exit_received,
                   tr_user_stopped, killVars, exited_events>>

TR_StderrClosed(t) ==
    /\ tr_pc[t] = "loop"
    /\ ~stderr_closed[t]
    /\ stdout_closed[t]
    /\ stderr_closed' = [stderr_closed EXCEPT ![t] = TRUE]
    /\ UNCHANGED <<waitVars, tr_pc, tr_ret, stdout_closed, exit_received,
                   tr_user_stopped, killVars, exited_events>>

\* a loop that takes the exit but not what it says about the stop
TR_ExitReceived_StopIgnored(t) ==
    /\ tr_pc[t] = "loop"
    /\ ~exit_received[t]
    /\ exit_rx[t] # None
    /\ exit_received' = [exit_received EXCEPT ![t] = TRUE]
    /\ UNCHANGED <<waitVars, tr_pc, tr_ret, stdout_closed, stderr_closed,
                   tr_user_stopped, killVars, exited_events>>

\* the terminal_run loop, the exit arriving (agent_host.rs:240-252)
TR_ExitReceived(t) ==
    /\ tr_pc[t] = "loop"
    /\ ~exit_received[t]
    /\ exit_rx[t] # None
    /\ exit_received' = [exit_received EXCEPT ![t] = TRUE]
    /\ tr_user_stopped' = [tr_user_stopped EXCEPT ![t] = exit_rx[t][1]]
    /\ UNCHANGED <<waitVars, tr_pc, tr_ret, stdout_closed, stderr_closed,
                   killVars, exited_events>>

\* after the loop: the terminal/exited event and the result
\* (agent_host.rs:192, 256-278)
TR_EmitExited(t) ==
    /\ tr_pc[t] = "loop"
    /\ stdout_closed[t] /\ stderr_closed[t] /\ exit_received[t]
    /\ exited_events' = [exited_events EXCEPT ![t] =
            Append(@, [terminal_id |-> t, user_stopped |-> tr_user_stopped[t]])]
    /\ tr_ret' = [tr_ret EXCEPT ![t] = "Ok"]
    /\ tr_pc' = [tr_pc EXCEPT ![t] = "done"]
    /\ UNCHANGED <<waitVars, loopVars, killVars>>

TerminalRunStep(t) ==
    \/ TR_StdoutClosed(t)
    \/ TR_StderrClosed(t)
    \/ TR_ExitReceived(t)
    \/ TR_EmitExited(t)

\* a kill that sends on the sender and leaves it in the control
kill_SenderKept(tid) ==
    IF tid = EmptyTerminalId THEN
        /\ kill_ret' = "InvalidInput"
        /\ kill_effect' = "nothing"
        /\ UNCHANGED <<runs, kill_rx, kill_signals, killed_running>>
    ELSE IF runs[tid] = "absent" THEN
        /\ kill_ret' = "Ok"
        /\ kill_effect' = "nothing"
        /\ UNCHANGED <<runs, kill_rx, kill_signals, killed_running>>
    ELSE
        /\ kill_rx' = [kill_rx EXCEPT ![tid] = IF @ = "empty" THEN "sent" ELSE @]
        /\ kill_signals' = [kill_signals EXCEPT ![tid] = @ + 1]
        /\ killed_running' = [killed_running EXCEPT ![tid] = @ \/ proc[tid] = "running"]
        /\ kill_ret' = "Ok"
        /\ kill_effect' = "sent"
        /\ UNCHANGED runs

\* TerminalManager::kill (terminal.rs:161-179), under the runs lock: a blank
\* ID is rejected, an ID without a control is ignored, and the sender is
\* taken out of the control before it is used
kill(tid) ==
    IF tid = EmptyTerminalId THEN
        /\ kill_ret' = "InvalidInput"
        /\ kill_effect' = "nothing"
        /\ UNCHANGED <<runs, kill_rx, kill_signals, killed_running>>
    ELSE IF runs[tid] = "absent" THEN
        /\ kill_ret' = "Ok"
        /\ kill_effect' = "nothing"
        /\ UNCHANGED <<runs, kill_rx, kill_signals, killed_running>>
    ELSE IF runs[tid] = "some" THEN
        /\ runs' = [runs EXCEPT ![tid] = "taken"]
        /\ kill_rx' = [kill_rx EXCEPT ![tid] = "sent"]
        /\ kill_signals' = [kill_signals EXCEPT ![tid] = @ + 1]
        /\ killed_running' = [killed_running EXCEPT ![tid] = proc[tid] = "running"]
        /\ kill_ret' = "Ok"
        /\ kill_effect' = "sent"
    ELSE
        /\ kill_ret' = "Ok"
        /\ kill_effect' = "nothing"
        /\ UNCHANGED <<runs, kill_rx, kill_signals, killed_running>>

\* the terminal_kill command (commands/terminal.rs:23-39)
terminal_kill(ws, tid) ==
    /\ kill_ws' = ws
    /\ kill_tid' = Some(tid)
    /\ IF ws = "blank" THEN
            /\ kill_ret' = "InvalidInput"
            /\ kill_effect' = "nothing"
            /\ UNCHANGED <<runs, kill_rx, kill_signals, killed_running>>
       ELSE IF ws = "missing" THEN
            /\ kill_ret' = "WorkspaceNotFound"
            /\ kill_effect' = "nothing"
            /\ UNCHANGED <<runs, kill_rx, kill_signals, killed_running>>
       ELSE kill(tid)
    /\ UNCHANGED <<proc, wait_pc, user_stopped, exit_rx, tr_pc,
                   tr_ret, loopVars, exited_events>>

\* handle_request, METHOD_REQUEST_PERMISSION (agent.rs:491-521): the adapter
\* asks for permission to run the command of run t
Adapter_RequestPermission(t) ==
    /\ tperm[t] = "none"
    /\ tperm' = [tperm EXCEPT ![t] = "pending"]

\* host.request_permission returns: the user's decision, or an error
Adapter_PermissionAnswered(t, d) ==
    /\ tperm[t] = "pending"
    /\ tperm' = [tperm EXCEPT ![t] = d]

NextTerm ==
    \/ \E t \in Runs, c \in Commands : HandleRequest_TerminalRun(t, c)
    \/ \E t \in Runs : Child_Exit(t)
    \/ \E t \in Runs : WaitTaskStep(t)
    \/ \E t \in Runs : TerminalRunStep(t)
    \/ \E ws \in WorkspaceArgs, tid \in TerminalIds : terminal_kill(ws, tid)

\* the runs, together with the reverse-RPC requests by which the adapter
\* asks for the permission to run a command
NextGate ==
    \/ /\ NextTerm
       /\ UNCHANGED gateVars
    \/ /\ \E t \in Runs : Adapter_RequestPermission(t)
       /\ UNCHANGED termVars
    \/ /\ \E t \in Runs, d \in Decisions \cup {"Err"} : Adapter_PermissionAnswered(t, d)
       /\ UNCHANGED termVars

(***************************************************************************)
(* The stdout reader task of a connection (protocols/acp/agent.rs:198-334) *)
(* after the handshake.  The adapter writes frames, one line each, into    *)
(* the stdout pipe; the reader takes them out in order.  A frame is an     *)
(* update (a session/notification or session/update notification with     *)
(* params), a prompt response (a response whose result has a stopReason),  *)
(* a request (a method with an id), a line the reader only logs, or a line *)
(* next_line cannot decode.  The n-th update or prompt response the        *)
(* adapter writes carries n, which stands for its payload.  Handlers are   *)
(* counted, not named: what a handler does for its request is in the parts *)
(* above, here it holds a permit from its start to its end.                *)
(***************************************************************************)
MAX_INFLIGHT_REQUESTS == 8

FrameKinds == {"update", "prompt_response", "request", "logged", "undecodable"}

\* the frames that lead to on_session_update
UpdateKinds == {"update", "prompt_response"}

InitReader ==
    /\ stdout_pipe = <<>>
    /\ stdout_eof = FALSE
    /\ updates_written = <<>>
    /\ session_updates = <<>>
    /\ reader_pc = "next_line"
    /\ permits = MAX_INFLIGHT_REQUESTS
    /\ in_flight = 0
    /\ connection_lost = 0

\* the adapter writes one line on its stdout
Adapter_Write(kind) ==
    /\ ~stdout_eof
    /\ Len(stdout_pipe) < PipeCap
    /\ IF kind \in UpdateKinds
       THEN /\ Len(updates_written) < MaxUpdates
            /\ updates_written' = Append(updates_written, kind)
            /\ stdout_pipe' = Append(stdout_pipe,
                    [kind |-> kind, n |-> Len(updates_written) + 1])
       ELSE /\ stdout_pipe' = Append(stdout_pipe, [kind |-> kind, n |-> 0])
            /\ UNCHANGED updates_written
    /\ UNCHANGED <<stdout_eof, session_updates, reader_pc, permits, in_flight,
                   connection_lost>>

\* the adapter closes its stdout, or exits
Adapter_CloseStdout ==
    /\ ~stdout_eof
    /\ stdout_eof' = TRUE
    /\ UNCHANGED <<stdout_pipe, updates_written, session_updates, reader_pc,
                   permits, in_flight, connection_lost>>

\* an on_session_update that puts the event in front of the earlier ones
on_session_update_InFront(u) ==
    session_updates' = <<u>> \o session_updates

\* RuntimeAgentHost::on_session_update (agent_host.rs:109-131): one
\* acp/session_update event
on_session_update(u) ==
    session_updates' = Append(session_updates, u)

\* AcpSessionUpdate of a frame: the update of a notification
\* (agent.rs:217-243), TurnComplete for a prompt response (agent.rs:285-312)
SessionUpdateOf(frame) ==
    [n |-> frame.n,
     update |-> IF frame.kind = "prompt_response" THEN "TurnComplete" ELSE "Update"]

\* one turn of the reader's loop (agent.rs:201-322): next_line returns the
\* next line, and the line is handled up to the next await
Reader_NextLine ==
    /\ reader_pc = "next_line"
    /\ stdout_pipe # <<>>
    /\ stdout_pipe' = Tail(stdout_pipe)
    /\ LET frame == Head(stdout_pipe) IN
       CASE frame.kind \in UpdateKinds ->
                /\ on_session_update(SessionUpdateOf(frame))
                /\ UNCHANGED reader_pc
         [] frame.kind = "request" ->
                /\ reader_pc' = "acquire"
                /\ UNCHANGED session_updates
         [] frame.kind = "logged" ->
                UNCHANGED <<reader_pc, session_updates>>
         [] frame.kind = "undecodable" ->
                /\ reader_pc' = "stdout_closed"
                /\ UNCHANGED session_updates
    /\ UNCHANGED <<stdout_eof, updates_written, permits, in_flight, connection_lost>>

\* a reader that starts the handler without a permit
Reader_Acquire_NoPermit ==
    /\ reader_pc = "acquire"
    /\ in_flight' = in_flight + 1
    /\ reader_pc' = "next_line"
    /\ UNCHANGED <<stdout_pipe, stdout_eof, updates_written, session_updates,
                   permits, connection_lost>>

\* semaphore.acquire_owned().await and the spawn of the handler
\* (agent.rs:264-282)
Reader_Acquire ==
    /\ reader_pc = "acquire"
    /\ permits > 0
    /\ permits' = permits - 1
    /\ in_flight' = in_flight + 1
    /\ reader_pc' = "next_line"
    /\ UNCHANGED <<stdout_pipe, stdout_eof, updates_written, session_updates,
                   connection_lost>>

\* next_line returns Ok(None) at the end of stdout (agent.rs:201)
Reader_Eof ==
    /\ reader_pc = "next_line"
    /\ stdout_pipe = <<>>
    /\ stdout_eof
    /\ reader_pc' = "stdout_closed"
    /\ UNCHANGED <<stdout_pipe, stdout_eof, updates_written, session_updates,
                   permits, in_flight, connection_lost>>

\* after the loop: host.on_connection_lost() (agent.rs:324-329)
Reader_ConnectionLost ==
    /\ reader_pc = "stdout_closed"
    /\ connection_lost' = connection_lost + 1
    /\ reader_pc' = "done"
    /\ UNCHANGED <<stdout_pipe, stdout_eof, updates_written, session_updates,
                   permits, in_flight>>

\* a handler task ends: handle_request has returned and _permit is dropped
\* (agent.rs:269-281)
Handler_Finish ==
    /\ in_flight > 0
    /\ in_flight' = in_flight - 1
    /\ permits' = permits + 1
    /\ UNCHANGED <<stdout_pipe, stdout_eof, updates_written, session_updates,
                   reader_pc, connection_lost>>

ReaderStep ==
    \/ Reader_NextLine
    \/ Reader_Acquire
    \/ Reader_Eof
    \/ Reader_ConnectionLost

NextReader ==
    \/ \E kind \in FrameKinds : Adapter_Write(kind)
    \/ Adapter_CloseStdout
    \/ ReaderStep
    \/ Handler_Finish

(***************************************************************************)
(* The writers of a connection's stdin (protocols/acp/agent.rs):           *)
(* AcpAgent::send_prompt, AcpAgent::cancel_turn and send_jsonrpc_response, *)
(* called from any number of tasks.  All three serialize their message,    *)
(* lock the stdin mutex and then write the payload, write the newline and  *)
(* flush, each an await; the guard is dropped when the function returns,   *)
(* with Ok after the flush or with the error of the step that failed.  A   *)
(* write fails once the adapter has closed the pipe, and from then on      *)
(* every write fails.  (The Option behind the mutex is never emptied, so   *)
(* the "stdin not available" branch is not taken.)                         *)
(***************************************************************************)
WriterKinds == {"send_prompt", "cancel_turn", "send_jsonrpc_response"}

InitStdin ==
    /\ stdin_lock = None
    /\ stdin_bytes = <<>>
    /\ stdin_broken = FALSE
    /\ w_pc = [w \in Writers |-> "idle"]
    /\ w_kind = [w \in Writers |-> "none"]
    /\ w_ret = [w \in Writers |-> "none"]

\* a call of one of the three functions, up to stdin.lock().await
\* (agent.rs:351-380, 411-425, 662-669)
Writer_Call(w, kind) ==
    /\ w_pc[w] = "idle"
    /\ \A x \in Writers : x < w => w_pc[x] # "idle"
    /\ w_kind' = [w_kind EXCEPT ![w] = kind]
    /\ w_pc' = [w_pc EXCEPT ![w] = "lock"]
    /\ UNCHANGED <<stdin_lock, stdin_bytes, stdin_broken, w_ret>>

\* a writer that goes on without the mutex
Writer_Lock_NoMutex(w) ==
    /\ w_pc[w] = "lock"
    /\ w_pc' = [w_pc EXCEPT ![w] = "payload"]
    /\ UNCHANGED <<stdin_lock, stdin_bytes, stdin_broken, w_kind, w_ret>>

\* stdin.lock().await (agent.rs:381, 426, 669)
Writer_Lock(w) ==
    /\ w_pc[w] = "lock"
    /\ stdin_lock = None
    /\ stdin_lock' = Some(w)
    /\ w_pc' = [w_pc EXCEPT ![w] = "payload"]
    /\ UNCHANGED <<stdin_bytes, stdin_broken, w_kind, w_ret>>

\* the function returns an IoError and its guard is dropped
Writer_Fail(w) ==
    /\ w_ret' = [w_ret EXCEPT ![w] = "IoError"]
    /\ w_pc' = [w_pc EXCEPT ![w] = "done"]
    /\ stdin_lock' = IF stdin_lock = Some(w) THEN None ELSE stdin_lock
    /\ UNCHANGED <<stdin_bytes, stdin_broken, w_kind>>

\* one write_all(..).await: the bytes go into the pipe, or the write fails
write_all(w, part, next) ==
    IF stdin_broken
    THEN Writer_Fail(w)
    ELSE /\ stdin_bytes' = Append(stdin_bytes, [w |-> w, part |-> part])
         /\ w_pc' = [w_pc EXCEPT ![w] = next]
         /\ UNCHANGED <<stdin_lock, stdin_broken, w_kind, w_ret>>

\* stdin.write_all(message.as_bytes()).await (agent.rs:383-389, 428-434, 671-677)
Writer_Payload(w) ==
    /\ w_pc[w] = "payload"
    /\ write_all(w, "payload", "newline")

\* stdin.write_all(b"\n").await (agent.rs:391-397, 436-442, 678-684)
Writer_Newline(w) ==
    /\ w_pc[w] = "newline"
    /\ write_all(w, "newline", "flush")

\* stdin.flush().await and the return (agent.rs:399-404, 444-449, 685-688)
Writer_Flush(w) ==
    /\ w_pc[w] = "flush"
    /\ IF stdin_broken
       THEN Writer_Fail(w)
       ELSE /\ w_ret' = [w_ret EXCEPT ![w] = "Ok"]
            /\ w_pc' = [w_pc EXCEPT ![w] = "done"]
            /\ stdin_lock' = IF stdin_lock = Some(w) THEN None ELSE stdin_lock
            /\ UNCHANGED <<stdin_bytes, stdin_broken, w_kind>>

\* the adapter closes its stdin, or exits
Adapter_CloseStdin ==
    /\ ~stdin_broken
    /\ stdin_broken' = TRUE
    /\ UNCHANGED <<stdin_lock, stdin_bytes, w_pc, w_kind, w_ret>>

WriterStep(w) ==
    \/ Writer_Lock(w)
    \/ Writer_Payload(w)
    \/ Writer_Newline(w)
    \/ Writer_Flush(w)

NextStdin ==
    \/ \E w \in Writers, kind \in WriterKinds : Writer_Call(w, kind)
    \/ \E w \in Writers : WriterStep(w)
    \/ Adapter_CloseStdin

(***************************************************************************)
(* The specifications.                                                     *)
(***************************************************************************)
EnsureStartedStep(c) ==
    \/ ES_FastPath(c)
    \/ ES_AcquireStartLock(c)
    \/ ES_DoubleCheck(c)
    \/ ES_SetStarting(c)
    \/ ES_EmitStarting(c)
    \/ ES_ResolveBin(c)
    \/ Connect_Spawn(c)
    \/ Handshake_WriteInitialize(c)
    \/ Handshake_ReadInitialize(c)
    \/ Handshake_WriteSessionNew(c)
    \/ Handshake_ReadSessionNew(c)
    \/ ES_StoreConnection(c)
    \/ ES_StoreSession(c)
    \/ ES_SetRunning(c)
    \/ ES_EmitRunning(c)
    \/ ES_ReturnOk(c)
    \/ ES_SetErrored(c)
    \/ ES_EmitErrored(c)
    \/ ES_ReturnErr(c)

SendPromptStep(c) ==
    \/ SP_ReadSession(c)
    \/ SP_ReadConnection(c)
    \/ SP_Write(c)

StopTurnStep(c) ==
    \/ ST_ReadConnection(c)
    \/ ST_Cancel(c)

NextAgent ==
    \/ \E c \in Callers : CallEnsureStarted(c)
    \/ \E c \in Callers : CallSendPrompt(c)
    \/ \E c \in Callers, sid \in SessionIds : CallStopTurn(c, sid)
    \/ \E c \in Callers : EnsureStartedStep(c)
    \/ \E c \in Callers : SendPromptStep(c)
    \/ \E c \in Callers : StopTurnStep(c)
    \/ \E k \in Children : AdapterClose(k)
    \/ \E k \in Children : on_connection_lost(k)

(***************************************************************************)
(* WorkspaceManager (runtime/workspace_manager.rs)                         *)
(***************************************************************************)

ManagerCalls == 1..NumManagerCalls
WorkspaceIds == 1..NumWorkspaces

\* "" or whitespace, which trim().is_empty() rejects
BlankId == 0

\* workspace_id arguments: blank, or an ID that is in the map, was deleted
\* from it or was never handed out
WorkspaceArgIds == WorkspaceIds \cup {BlankId}

\* root_dir arguments of create_workspace, by what canonicalize_workspace_root
\* finds (path.rs:18-45)
RootDirs == {"blank", "missing", "file", "dir"}

\* the operations that begin with self.get_workspace(&workspace_id).await? and
\* hand the rest to the workspace
LookupOps == {"get_workspace", "create_agent", "list_agents", "ensure_agent_runtime"}

InitManager ==
    /\ workspaces = {}
    /\ focused = None
    /\ next_workspace = 0
    /\ create_ret = NoResult
    /\ m_pc = [t \in ManagerCalls |-> "idle"]
    /\ m_op = [t \in ManagerCalls |-> "none"]
    /\ m_w = [t \in ManagerCalls |-> BlankId]
    /\ m_ret = [t \in ManagerCalls |-> NoResult]

\* WorkspaceManager::get_focus
get_focus == focused

\* WorkspaceManager::list_workspaces: the IDs of the summaries returned
list_workspaces == workspaces

\* what WorkspaceManager::get_workspace returns
WorkspaceLookup(w) ==
    IF w \in workspaces THEN Ok(w) ELSE Err("WorkspaceNotFound")

\* calls begin in the order of their numbers
ManagerCallBegins(t, op, w) ==
    /\ m_pc[t] = "idle"
    /\ \A x \in ManagerCalls : x < t => m_pc[x] # "idle"
    /\ m_op' = [m_op EXCEPT ![t] = op]
    /\ m_w' = [m_w EXCEPT ![t] = w]

ManagerReturn(t, r) ==
    /\ m_pc' = [m_pc EXCEPT ![t] = "done"]
    /\ m_ret' = [m_ret EXCEPT ![t] = r]

create_workspace(root) ==
    /\ IF root = "dir"
       THEN /\ next_workspace < NumWorkspaces
            /\ next_workspace' = next_workspace + 1
            /\ workspaces' = workspaces \cup {next_workspace + 1}
            /\ create_ret' = Ok(next_workspace + 1)
       ELSE /\ create_ret' = Err(CASE root = "blank" -> "InvalidInput"
                                   [] root = "missing" -> "PathNotFound"
                                   [] root = "file" -> "PathNotDirectory")
            /\ UNCHANGED <<workspaces, next_workspace>>
    /\ UNCHANGED <<focused, m_pc, m_op, m_w, m_ret>>

\* a set_focus that stores the ID without looking it up
set_focus_Unchecked(t, w) ==
    /\ ManagerCallBegins(t, "set_focus", w)
    /\ m_pc' = [m_pc EXCEPT ![t] = "set_focus_store"]
    /\ UNCHANGED <<workspaces, focused, next_workspace, create_ret, m_ret>>

\* set_focus up to the release of the map lock (workspace_manager.rs:92-107)
set_focus(t, w) ==
    /\ ManagerCallBegins(t, "set_focus", w)
    /\ IF w = BlankId
       THEN ManagerReturn(t, Err("InvalidInput"))
       ELSE IF w \notin workspaces
       THEN ManagerReturn(t, Err("WorkspaceNotFound"))
       ELSE /\ m_pc' = [m_pc EXCEPT ![t] = "set_focus_store"]
            /\ UNCHANGED m_ret
    /\ UNCHANGED <<workspaces, focused, next_workspace, create_ret>>

\* *focused = Some(workspace_id) (workspace_manager.rs:109-116)
set_focus_Store(t) ==
    /\ m_pc[t] = "set_focus_store"
    /\ focused' = Some(m_w[t])
    /\ ManagerReturn(t, SendOk)
    /\ UNCHANGED <<workspaces, next_workspace, create_ret, m_op, m_w>>

\* delete_workspace up to the removal from the map (workspace_manager.rs:157-174)
delete_workspace(t, w) ==
    /\ ManagerCallBegins(t, "delete_workspace", w)
    /\ IF w = BlankId
       THEN ManagerReturn(t, Err("InvalidInput")) /\ UNCHANGED workspaces
       ELSE IF w \notin workspaces
       THEN ManagerReturn(t, Err("WorkspaceNotFound")) /\ UNCHANGED workspaces
       ELSE /\ workspaces' = workspaces \ {w}
            /\ m_pc' = [m_pc EXCEPT ![t] = "delete_clear_focus"]
            /\ UNCHANGED m_ret
    /\ UNCHANGED <<focused, next_workspace, create_ret>>

\* a delete_workspace that clears whatever focus there is
delete_workspace_ClearFocus_Any(t) ==
    /\ m_pc[t] = "delete_clear_focus"
    /\ focused' = None
    /\ ManagerReturn(t, SendOk)
    /\ UNCHANGED <<workspaces, next_workspace, create_ret, m_op, m_w>>

\* the focus is cleared if it is the deleted workspace (workspace_manager.rs:176-185)
delete_workspace_ClearFocus(t) ==
    /\ m_pc[t] = "delete_clear_focus"
    /\ focused' = IF focused = Some(m_w[t]) THEN None ELSE focused
    /\ ManagerReturn(t, SendOk)
    /\ UNCHANGED <<workspaces, next_workspace, create_ret, m_op, m_w>>

\* get_workspace, alone or as the first step of create_agent, list_agents and
\* ensure_agent_runtime (workspace_manager.rs:196-207, 227, 245, 272)
get_workspace(t, op, w) ==
    /\ ManagerCallBegins(t, op, w)
    /\ ManagerReturn(t, WorkspaceLookup(w))
    /\ UNCHANGED <<workspaces, focused, next_workspace, create_ret>>

ManagerStep(t) ==
    \/ set_focus_Store(t)
    \/ delete_workspace_ClearFocus(t)

NextManager ==
    \/ \E root \in RootDirs : create_workspace(root)
    \/ \E t \in ManagerCalls, w \in WorkspaceArgIds : set_focus(t, w)
    \/ \E t \in ManagerCalls, w \in WorkspaceArgIds : delete_workspace(t, w)
    \/ \E t \in ManagerCalls, op \in LookupOps, w \in WorkspaceArgIds : get_workspace(t, op, w)
    \/ \E t \in ManagerCalls : ManagerStep(t)

(***************************************************************************)
(* AgentRegistry (runtime/agents.rs:330-479)                               *)
(***************************************************************************)

RegistryCalls == 1..NumRegistryCalls
AgentIds == 1..NumAgents

\* an agent ID no record ever has
UnknownAgentId == 0

AgentArgIds == AgentIds \cup {UnknownAgentId}

\* display_name arguments of create_agent
DisplayNames == {"none", "blank", "name"}

InitRegistry ==
    /\ agents = 0
    /\ runtimes = [a \in AgentIds |-> 0]
    /\ made = 0
    /\ agent_ret = NoResult
    /\ g_pc = [t \in RegistryCalls |-> "idle"]
    /\ g_a = [t \in RegistryCalls |-> UnknownAgentId]
    /\ g_ret = [t \in RegistryCalls |-> NoResult]

\* AgentRegistry::list_agents: the IDs of the records returned
list_agents == 1..agents

\* AgentRegistry::get_agent
get_agent(a) == IF a \in 1..agents THEN Ok(a) ELSE Err("AgentNotFound")

RegistryReturn(t, r) ==
    /\ g_pc' = [g_pc EXCEPT ![t] = "done"]
    /\ g_ret' = [g_ret EXCEPT ![t] = r]

\* AgentRegistry::create_agent (agents.rs:369-406)
create_agent(plugin_id, display_name) ==
    /\ IF ~validate_plugin_id(plugin_id) \/ display_name = "blank"
       THEN agent_ret' = Err("InvalidInput") /\ UNCHANGED agents
       ELSE /\ agents < NumAgents
            /\ agents' = agents + 1
            /\ agent_ret' = Ok(agents + 1)
    /\ UNCHANGED <<runtimes, made, g_pc, g_a, g_ret>>

\* ensure_runtime up to the release of the runtimes lock after the first
\* look (agents.rs:438-452); get_agent and the look are two lock sections
ensure_runtime(t, a) ==
    /\ g_pc[t] = "idle"
    /\ \A x \in RegistryCalls : x < t => g_pc[x] # "idle"
    /\ g_a' = [g_a EXCEPT ![t] = a]
    /\ IF ~get_agent(a).ok
       THEN RegistryReturn(t, get_agent(a))
       ELSE /\ g_pc' = [g_pc EXCEPT ![t] = "er_check"]
            /\ UNCHANGED g_ret
    /\ UNCHANGED <<agents, runtimes, made, agent_ret>>

\* if let Some(runtime) = runtimes.get(&agent_id) (agents.rs:446-452)
ensure_runtime_Check(t) ==
    /\ g_pc[t] = "er_check"
    /\ IF runtimes[g_a[t]] # 0
       THEN RegistryReturn(t, Ok(runtimes[g_a[t]]))
       ELSE /\ g_pc' = [g_pc EXCEPT ![t] = "er_insert"]
            /\ UNCHANGED g_ret
    /\ UNCHANGED <<agents, runtimes, made, agent_ret, g_a>>

\* an insertion that does not look again
ensure_runtime_Insert_Blind(t) ==
    /\ g_pc[t] = "er_insert"
    /\ made' = made + 1
    /\ runtimes' = [runtimes EXCEPT ![g_a[t]] = made + 1]
    /\ RegistryReturn(t, Ok(made + 1))
    /\ UNCHANGED <<agents, agent_ret, g_a>>

\* AgentRuntime::new and the insertion under the lock, with its second look
\* (agents.rs:454-472)
ensure_runtime_Insert(t) ==
    /\ g_pc[t] = "er_insert"
    /\ made' = made + 1
    /\ IF runtimes[g_a[t]] # 0
       THEN /\ RegistryReturn(t, Ok(runtimes[g_a[t]]))
            /\ UNCHANGED runtimes
       ELSE /\ runtimes' = [runtimes EXCEPT ![g_a[t]] = made + 1]
            /\ RegistryReturn(t, Ok(made + 1))
    /\ UNCHANGED <<agents, agent_ret, g_a>>

EnsureRuntimeStep(t) ==
    \/ ensure_runtime_Check(t)
    \/ ensure_runtime_Insert(t)

NextRegistry ==
    \/ \E p \in PluginIds, n \in DisplayNames : create_agent(p, n)
    \/ \E t \in RegistryCalls, a \in AgentArgIds : ensure_runtime(t, a)
    \/ \E t \in RegistryCalls : EnsureRuntimeStep(t)

\* The manager, a registry and the permission hub share no state, and an
\* operation on a missing ID touches one of them: a behaviour of the three
\* together is a behaviour of one of them.
NextMisses ==
    \/ InitRegistry /\ InitPerm /\ NextManager /\ UNCHANGED <<registryVars, permVars>>
    \/ InitManager /\ InitPerm /\ NextRegistry /\ UNCHANGED <<managerVars, permVars>>
    \/ InitManager /\ InitRegistry /\ NextPerm /\ UNCHANGED <<managerVars, registryVars>>

(***************************************************************************)
(* Terminal output streaming (runtime/terminal.rs, runtime/agent_host.rs)   *)
(***************************************************************************)

Streams == {"stdout", "stderr"}

InitOutput ==
    /\ pipe_read = [s \in Streams |-> 0]
    /\ pipe_eof = [s \in Streams |-> FALSE]
    /\ out_chan = [s \in Streams |-> <<>>]
    /\ out_events = [s \in Streams |-> <<>>]
    /\ out_closed = [s \in Streams |-> FALSE]

\* mpsc::Sender::try_send: the value is queued unless the channel is full
try_send(queue, chunk) ==
    IF Len(queue) < OUTPUT_CHANNEL_CAPACITY THEN Append(queue, chunk) ELSE queue

\* one round of stream_to_channel's loop with Ok(n), n > 0: the chunk read is
\* handed to try_send and the result is discarded (terminal.rs:207-210)
stream_to_channel(s) ==
    /\ ~pipe_eof[s]
    /\ pipe_read[s] < MaxChunks
    /\ pipe_read' = [pipe_read EXCEPT ![s] = @ + 1]
    /\ out_chan' = [out_chan EXCEPT ![s] = try_send(@, pipe_read[s] + 1)]
    /\ UNCHANGED <<pipe_eof, out_events, out_closed>>

\* Ok(0) or Err: the loop breaks and the sender is dropped (terminal.rs:206, 211-214)
stream_to_channel_End(s) ==
    /\ ~pipe_eof[s]
    /\ pipe_eof' = [pipe_eof EXCEPT ![s] = TRUE]
    /\ UNCHANGED <<pipe_read, out_chan, out_events, out_closed>>

\* the select! branch of a stream with Some(chunk): the terminal/output event
\* is emitted (agent_host.rs:194-213, 217-236)
terminal_run_Chunk(s) ==
    /\ ~out_closed[s]
    /\ out_chan[s] # <<>>
    /\ out_events' = [out_events EXCEPT ![s] = Append(@, Head(out_chan[s]))]
    /\ out_chan' = [out_chan EXCEPT ![s] = Tail(@)]
    /\ UNCHANGED <<pipe_read, pipe_eof, out_closed>>

\* the branch with None: the channel is empty and its sender is gone
\* (agent_host.rs:214, 237)
terminal_run_StreamClosed(s) ==
    /\ ~out_closed[s]
    /\ out_chan[s] = <<>>
    /\ pipe_eof[s]
    /\ out_closed' = [out_closed EXCEPT ![s] = TRUE]
    /\ UNCHANGED <<pipe_read, pipe_eof, out_chan, out_events>>

NextOutput ==
    \/ \E s \in Streams : stream_to_channel(s)
    \/ \E s \in Streams : stream_to_channel_End(s)
    \/ \E s \in Streams : terminal_run_Chunk(s)
    \/ \E s \in Streams : terminal_run_StreamClosed(s)

(***************************************************************************)
(* The capped capture of terminal output (runtime/agent_host.rs:282-301)   *)
(***************************************************************************)

\* A string is the sequence of its characters, a character is its length in
\* UTF-8: one byte, or three.
CharBytes == {1, 3}

\* "\n...[truncated]", written as one character of its 15 bytes
MarkerBytes == 15

\* the chunks a stream can deliver: read returned n > 0 bytes
OutputChunks ==
    UNION {[1..n -> CharBytes] : n \in 1..MaxChunkChars}

RECURSIVE ByteLen(_)
\* str::len
ByteLen(str) ==
    IF str = <<>> THEN 0 ELSE Head(str) + ByteLen(Tail(str))

\* the end the loop over chunk.char_indices() arrives at: the longest run of
\* whole characters that fits in remaining bytes, counted in characters
FittingPrefix(chunk, remaining) ==
    CHOOSE end \in 0..Len(chunk) :
        /\ ByteLen(SubSeq(chunk, 1, end)) <= remaining
        /\ end < Len(chunk) => ByteLen(SubSeq(chunk, 1, end + 1)) > remaining

append_capped(target, chunk, cap) ==
    IF ByteLen(target) >= cap
    THEN target
    ELSE LET remaining == cap - ByteLen(target) IN
         IF ByteLen(chunk) <= remaining
         THEN target \o chunk
         ELSE (target \o SubSeq(chunk, 1, FittingPrefix(chunk, remaining)))
                  \o <<MarkerBytes>>

RECURSIVE Flatten(_)
\* the chunks of a stream one after the other
Flatten(chunks) ==
    IF chunks = <<>> THEN <<>> ELSE Head(chunks) \o Flatten(Tail(chunks))

InitCapture ==
    /\ cap_target = <<>>
    /\ cap_output = <<>>

\* a chunk arrives and is appended to the buffer (agent_host.rs:212, 235)
terminal_run_Append(chunk) ==
    /\ Len(cap_output) < MaxChunks
    /\ cap_target' = append_capped(cap_target, chunk, OUTPUT_CAPTURE_LIMIT)
    /\ cap_output' = Append(cap_output, chunk)

NextCapture ==
    \E chunk \in OutputChunks : terminal_run_Append(chunk)

(***************************************************************************)
(* Paths and their canonical form (std::fs::canonicalize)                  *)
(***************************************************************************)

\* A path is absolute or relative and a sequence of components; the
\* canonical form of a path is the sequence of names from "/".
PathOf(abs, comps) == [abs |-> abs, comps |-> comps]

\* Path::starts_with: component-wise prefix
starts_with(path, base) ==
    /\ Len(base) <= Len(path)
    /\ \A i \in 1..Len(base) : base[i] = path[i]

\* the directory above; "/" is above itself
ParentDir(dir) ==
    IF dir = <<>> THEN <<>> ELSE SubSeq(dir, 1, Len(dir) - 1)

RECURSIVE Walk(_, _, _, _)
\* Resolution of the components rest from the directory cur in the file
\* system fs, as realpath does it: ".." goes to the directory above the place
\* reached, a symbolic link is replaced by its target, a missing name is
\* NotFound, a file with components after it is NotADirectory, too many
\* links are FilesystemLoop.
Walk(fs, cur, rest, hops) ==
    IF rest = <<>>
    THEN Ok(cur)
    ELSE LET name == Head(rest)
             next == Append(cur, name)
         IN  IF name = ".."
             THEN Walk(fs, ParentDir(cur), Tail(rest), hops)
             ELSE IF next \in fs.dirs
             THEN Walk(fs, next, Tail(rest), hops)
             ELSE IF next \in fs.files
             THEN IF Tail(rest) = <<>> THEN Ok(next) ELSE Err("NotADirectory")
             ELSE IF next \in DOMAIN fs.links
             THEN IF hops = 0
                  THEN Err("FilesystemLoop")
                  ELSE Walk(fs, IF fs.links[next].abs THEN <<>> ELSE cur,
                            fs.links[next].comps \o Tail(rest), hops - 1)
             ELSE Err("NotFound")

\* Path::canonicalize of an absolute path
canonicalize(fs, comps) == Walk(fs, <<>>, comps, MaxLinkHops)

\* Path::exists, Path::is_dir and Metadata::is_file, which follow links
exists(fs, comps) == canonicalize(fs, comps).ok

is_dir(fs, comps) ==
    canonicalize(fs, comps).ok /\ canonicalize(fs, comps).val[1] \in fs.dirs

is_file(fs, comps) ==
    canonicalize(fs, comps).ok /\ canonicalize(fs, comps).val[1] \in fs.files

(***************************************************************************)
(* resolve_path_in_workspace (runtime/path.rs) and read_text_file          *)
(* (runtime/fs.rs)                                                         *)
(***************************************************************************)

\* the names in the paths tried
PathComponents == {"ws", "a", "f", "l", "etc", "passwd", ".."}

PathInputs ==
    {PathOf(abs, comps) : abs \in BOOLEAN,
                          comps \in UNION {[1..n -> PathComponents] : n \in 0..MaxPathLen}}

\* what /ws/l may point to: a directory and a file of the workspace, a
\* directory and a file outside it, itself
LinkTargets ==
    {PathOf(FALSE, <<"a">>), PathOf(FALSE, <<"a", "f">>), PathOf(FALSE, <<"..", "etc">>),
     PathOf(TRUE, <<"etc", "passwd">>), PathOf(FALSE, <<"l">>)}

\* the workspace roots tried: the directory /ws, and the link in it
WorkspaceRoots == {<<"ws">>, <<"ws", "l">>}

\* the file system: /ws/a/f in the workspace /ws, /etc/passwd outside it
WorkspaceFs ==
    [dirs |-> {<<>>, <<"ws">>, <<"ws", "a">>, <<"etc">>},
     files |-> {<<"ws", "a", "f">>, <<"etc", "passwd">>},
     links |-> [p \in (IF fs_link = None THEN {} ELSE {<<"ws", "l">>}) |-> fs_link[1]]]

InitPath ==
    /\ fs_link = None
    /\ pg_pc = "idle"
    /\ pg_root = <<>>
    /\ pg_input = PathOf(FALSE, <<>>)
    /\ pg_ret = NoResult
    /\ pg_resolved = None
    /\ pg_opened = None

\* a resolution that compares the path as written with the root
resolve_path_in_workspace_Lexical(fs, root, input) ==
    IF ~input.abs /\ input.comps = <<>>
    THEN Err("InvalidInput")
    ELSE LET candidate == IF input.abs THEN input.comps ELSE root \o input.comps IN
         IF ~exists(fs, candidate)
         THEN Err("PathNotFound")
         ELSE IF ~starts_with(candidate, root)
         THEN Err("InvalidInput")
         ELSE Ok(candidate)

resolve_path_in_workspace(fs, root, input) ==
    IF ~input.abs /\ input.comps = <<>>
    THEN Err("InvalidInput")
    ELSE LET canonical_root == canonicalize(fs, root) IN
         IF ~canonical_root.ok
         THEN Err("IoError")
         ELSE LET base == canonical_root.val[1]
                  resolved == canonicalize(fs, IF input.abs THEN input.comps
                                               ELSE base \o input.comps)
              IN  IF ~resolved.ok
                  THEN IF resolved.err # "NotFound"
                       THEN Err("IoError")
                       ELSE IF input.abs /\ ~starts_with(input.comps, base)
                       THEN Err("InvalidInput")
                       ELSE Err("PathNotFound")
                  ELSE IF ~starts_with(resolved.val[1], base)
                  THEN Err("InvalidInput")
                  ELSE resolved

\* the link /ws/l is made, changed or removed
SetLink(target) ==
    /\ fs_link' = target
    /\ UNCHANGED <<pg_pc, pg_root, pg_input, pg_ret, pg_resolved, pg_opened>>

\* a call of resolve_path_in_workspace
ResolvePath(root, input) ==
    /\ pg_pc = "idle"
    /\ pg_pc' = "done"
    /\ pg_root' = root
    /\ pg_input' = input
    /\ pg_ret' = resolve_path_in_workspace(WorkspaceFs, root, input)
    /\ pg_resolved' = None
    /\ pg_opened' = None
    /\ UNCHANGED fs_link

\* read_text_file up to the first await (fs.rs:27-30): the path is resolved
read_text_file(input) ==
    /\ pg_pc = "idle"
    /\ pg_root' = <<"ws">>
    /\ pg_input' = input
    /\ pg_opened' = None
    /\ LET resolved == resolve_path_in_workspace(WorkspaceFs, <<"ws">>, input) IN
       IF resolved.ok
       THEN pg_pc' = "metadata" /\ pg_resolved' = resolved.val /\ pg_ret' = NoResult
       ELSE pg_pc' = "done" /\ pg_resolved' = None /\ pg_ret' = resolved
    /\ UNCHANGED fs_link

\* fs::metadata, the is_file check and fs::read_to_string on the resolved
\* path (fs.rs:30-53)
read_text_file_Read ==
    /\ pg_pc = "metadata"
    /\ pg_pc' = "done"
    /\ LET found == canonicalize(WorkspaceFs, pg_resolved[1]) IN
       IF ~found.ok
       THEN pg_ret' = Err("IoError") /\ UNCHANGED pg_opened
       ELSE IF found.val[1] \notin WorkspaceFs.files
       THEN pg_ret' = Err("InvalidInput") /\ UNCHANGED pg_opened
       ELSE pg_ret' = Ok("content") /\ pg_opened' = found.val
    /\ UNCHANGED <<fs_link, pg_root, pg_input, pg_resolved>>

NextPath ==
    \/ \E target \in {None} \cup {Some(t) : t \in LinkTargets} : SetLink(target)
    \/ pg_pc = "idle" /\ \E root \in WorkspaceRoots, input \in PathInputs : ResolvePath(root, input)
    \/ pg_pc = "idle" /\ \E input \in PathInputs : read_text_file(input)
    \/ read_text_file_Read

(***************************************************************************)
(* PluginManager::resolve_bin (plugins/manager.rs:648-773)                 *)
(***************************************************************************)

\* the states of plugin 1's directory: no directory, a directory without
\* install.json, one whose install.json cannot be read or parsed, one with
\* install.json
InstallStates == {"no_dir", "no_metadata", "bad_metadata", "installed"}

\* the names in the bin_path values tried
BinComponents == {"plugins", "p", "bin", "d", "l", "other", ".."}

BinPaths ==
    {PathOf(abs, comps) : abs \in BOOLEAN,
                          comps \in UNION {[1..n -> BinComponents] : n \in 0..MaxPathLen}}

\* what the link l may point to: the binary and a directory of the plugin, a
\* file outside the plugin's directory by a relative and by an absolute
\* path, itself
BinLinkTargets ==
    {PathOf(FALSE, <<"bin">>), PathOf(FALSE, <<"d">>), PathOf(FALSE, <<"..", "other">>),
     PathOf(TRUE, <<"plugins", "other">>), PathOf(FALSE, <<"l">>)}

\* plugins_root.join(&plugin_id): plugin 1 lives in /plugins/p
plugin_dir(plugin_id) == <<"plugins", IF plugin_id = 1 THEN "p" ELSE "q">>

\* the file system: the plugin's directory /plugins/p with the file bin, the
\* directory d and the link l, and the file /plugins/other outside it
PluginFs ==
    [dirs |-> {<<>>, <<"plugins">>} \cup
              (IF pl_install = "no_dir" THEN {}
               ELSE {<<"plugins", "p">>, <<"plugins", "p", "d">>}),
     files |-> {<<"plugins", "other">>} \cup
               (IF pl_install = "no_dir" THEN {} ELSE {<<"plugins", "p", "bin">>}) \cup
               (IF pl_install \in {"bad_metadata", "installed"}
                THEN {<<"plugins", "p", "install.json">>} ELSE {}),
     links |-> [p \in (IF pl_install = "no_dir" \/ pl_link = None THEN {}
                       ELSE {<<"plugins", "p", "l">>}) |-> pl_link[1]]]

InitBin ==
    /\ pl_install = "no_dir"
    /\ pl_bin_path = None
    /\ pl_link = None
    /\ rb_pc = "idle"
    /\ rb_plugin = InvalidPluginId
    /\ rb_ret = NoResult

\* a resolve_bin that takes the path as it is written
resolve_bin_AsWritten(fs, plugin_id, metadata_ok, bin_field) ==
    IF ~validate_plugin_id(plugin_id)
    THEN Err("InvalidInput")
    ELSE IF ~is_dir(fs, plugin_dir(plugin_id))
    THEN Err("PluginNotInstalled")
    ELSE IF ~exists(fs, plugin_dir(plugin_id) \o <<"install.json">>)
    THEN Err("PluginNotInstalled")
    ELSE IF ~metadata_ok
    THEN Err("IoError")
    ELSE IF bin_field = None \/ bin_field = Some(PathOf(FALSE, <<>>))
    THEN Err("PluginMissingBinPath")
    ELSE LET bin_path == IF bin_field[1].abs THEN bin_field[1].comps
                         ELSE plugin_dir(plugin_id) \o bin_field[1].comps
         IN  IF ~exists(fs, bin_path)
             THEN Err("PluginMissingBinPath")
             ELSE IF ~starts_with(bin_path, plugin_dir(plugin_id))
             THEN Err("InvalidInput")
             ELSE IF ~is_file(fs, bin_path)
             THEN Err("InvalidInput")
             ELSE Ok(bin_path)

\* resolve_bin, given the file system, whether install.json can be read and
\* parsed, and its bin_path field
resolve_bin(fs, plugin_id, metadata_ok, bin_field) ==
    IF ~validate_plugin_id(plugin_id)
    THEN Err("InvalidInput")
    ELSE IF ~exists(fs, plugin_dir(plugin_id)) \/ ~is_dir(fs, plugin_dir(plugin_id))
    THEN Err("PluginNotInstalled")
    ELSE IF ~exists(fs, plugin_dir(plugin_id) \o <<"install.json">>)
    THEN Err("PluginNotInstalled")
    ELSE IF ~metadata_ok
    THEN Err("IoError")
    ELSE IF bin_field = None
    THEN Err("PluginMissingBinPath")
    ELSE IF bin_field[1] = PathOf(FALSE, <<>>)
    THEN Err("PluginMissingBinPath")
    ELSE LET bin_path == IF bin_field[1].abs THEN bin_field[1].comps
                         ELSE plugin_dir(plugin_id) \o bin_field[1].comps
             canonical_plugin_dir == canonicalize(fs, plugin_dir(plugin_id))
             canonical_bin == canonicalize(fs, bin_path)
         IN  IF ~exists(fs, bin_path)
             THEN Err("PluginMissingBinPath")
             ELSE IF ~canonical_plugin_dir.ok \/ ~canonical_bin.ok
             THEN Err("PluginMissingBinPath")
             ELSE IF ~starts_with(canonical_bin.val[1], canonical_plugin_dir.val[1])
             THEN Err("InvalidInput")
             ELSE IF canonical_bin.val[1] \notin fs.files
             THEN Err("InvalidInput")
             ELSE canonical_bin

\* the plugin's directory is made and filled, as far as state says
SetInstall(state, bin_field) ==
    /\ rb_pc = "idle"
    /\ pl_install = "no_dir"
    /\ pl_install' = state
    /\ pl_bin_path' = IF state = "installed" THEN bin_field ELSE None
    /\ UNCHANGED <<pl_link, rb_pc, rb_plugin, rb_ret>>

\* the link l is made in the plugin's directory
SetBinLink(target) ==
    /\ rb_pc = "idle"
    /\ pl_link = None
    /\ pl_link' = target
    /\ UNCHANGED <<pl_install, pl_bin_path, rb_pc, rb_plugin, rb_ret>>

\* a call of resolve_bin
ResolveBin(plugin_id) ==
    /\ rb_pc = "idle"
    /\ rb_pc' = "done"
    /\ rb_plugin' = plugin_id
    /\ rb_ret' = resolve_bin(PluginFs, plugin_id, pl_install # "bad_metadata", pl_bin_path)
    /\ UNCHANGED <<pl_install, pl_bin_path, pl_link>>

NextBin ==
    \/ pl_install = "no_dir" /\ \E state \in InstallStates \ {"no_dir"},
                                    bin_field \in {None} \cup {Some(b) : b \in BinPaths} :
                                       SetInstall(state, bin_field)
    \/ \E t \in BinLinkTargets : SetBinLink(Some(t))
    \/ \E plugin_id \in PluginIds : ResolveBin(plugin_id)

(***************************************************************************)
(* PluginManager::validate_plugin_id (plugins/manager.rs:171-211), over    *)
(* the characters of the id.                                               *)
(***************************************************************************)

\* the characters tried: lowercase letters, digits, the hyphen, an uppercase
\* letter, an underscore, a dot and the two path separators
IdChars == {"a", "z", "0", "9", "-", "A", "_", ".", "/", "\\"}

\* the ids tried: every string up to one character longer than the limit
IdStrings == UNION {[1..n -> IdChars] : n \in 0..(MAX_PLUGIN_ID_LEN + 1)}

\* char::is_ascii_lowercase and char::is_ascii_digit
is_ascii_lowercase(c) == c \in {"a", "z"}

is_ascii_digit(c) == c \in {"0", "9"}

\* str::contains of a character and of the string ".."
contains(str, c) == \E i \in 1..Len(str) : str[i] = c

contains_dotdot(str) == \E i \in 1..(Len(str) - 1) : str[i] = "." /\ str[i + 1] = "."

InitId ==
    /\ vp_pc = "idle"
    /\ vp_id = <<>>
    /\ vp_ret = NoResult

\* a validation that looks at the characters only
validate_plugin_id_str_AnyHyphen(plugin_id) ==
    IF plugin_id = <<>>
    THEN Err("InvalidInput")
    ELSE IF Len(plugin_id) > MAX_PLUGIN_ID_LEN
    THEN Err("InvalidInput")
    ELSE IF ~(\A i \in 1..Len(plugin_id) :
                \/ is_ascii_lowercase(plugin_id[i])
                \/ is_ascii_digit(plugin_id[i])
                \/ plugin_id[i] = "-")
    THEN Err("InvalidInput")
    ELSE SendOk

\* validate_plugin_id over the characters of plugin_id, check by check
validate_plugin_id_str(plugin_id) ==
    IF plugin_id = <<>>
    THEN Err("InvalidInput")
    ELSE IF Len(plugin_id) > MAX_PLUGIN_ID_LEN
    THEN Err("InvalidInput")
    ELSE IF contains(plugin_id, "/") \/ contains(plugin_id, "\\") \/ contains_dotdot(plugin_id)
    THEN Err("InvalidInput")
    ELSE IF ~(\A i \in 1..Len(plugin_id) :
                \/ is_ascii_lowercase(plugin_id[i])
                \/ is_ascii_digit(plugin_id[i])
                \/ plugin_id[i] = "-")
    THEN Err("InvalidInput")
    ELSE IF plugin_id[1] = "-" \/ plugin_id[Len(plugin_id)] = "-"
    THEN Err("InvalidInput")
    ELSE SendOk

\* a call of validate_plugin_id
ValidatePluginId(plugin_id) ==
    /\ vp_pc = "idle"
    /\ vp_pc' = "done"
    /\ vp_id' = plugin_id
    /\ vp_ret' = validate_plugin_id_str(plugin_id)

NextId ==
    vp_pc = "idle" /\ \E plugin_id \in IdStrings : ValidatePluginId(plugin_id)

(***************************************************************************)
(* AcpAgent::connect from the handshake on (protocols/acp/agent.rs:180-198) *)
(* with perform_acp_handshake, write_jsonrpc_request and                   *)
(* read_jsonrpc_response (agent.rs:702-875), frame by frame.  The ids of   *)
(* the two requests are fresh UUIDs (agent.rs:708, 749): "init" and "new". *)
(***************************************************************************)

\* the "id" member of a line: the id of either request, another string, a
\* number, null, or no such member
HsIds == {"init", "new", "other", "number", "null", "absent"}

\* the "result" member: with a string sessionId, without one, or no such member
HsResults == {"session", "no_session", "absent"}

\* the lines an adapter may write: JSON objects, and text that is not JSON
HsLines ==
    [json : {TRUE}, id : HsIds, error : BOOLEAN, result : HsResults, update : BOOLEAN]
        \cup {[json |-> FALSE, id |-> "absent", error |-> FALSE, result |-> "absent",
               update |-> FALSE]}

InitHs ==
    /\ hk_pc = "write_initialize"
    /\ hk_written = <<>>
    /\ hk_matched = <<>>
    /\ hk_ret = NoResult
    /\ hk_reader = "none"
    /\ hk_callbacks = <<>>
    /\ hk_line = None
    /\ hk_lines = 0
    /\ hk_alive = TRUE

\* a read that takes any line with a string or number id
IsExpectedResponse_AnyId(line, expected_id) ==
    line.json /\ line.id \in {"init", "new", "other", "number"}

\* the test of read_jsonrpc_response's loop (agent.rs:844-866): the line
\* parses as JSON, has an id that is a string or a number, and the id, as a
\* string, equals expected_id; a number never equals a UUID
IsExpectedResponse(line, expected_id) ==
    line.json /\ line.id \in {"init", "new", "other"} /\ line.id = expected_id

\* the adapter writes a line to stdout
Hs_AdapterWrite(line) ==
    /\ hk_alive
    /\ hk_line = None
    /\ hk_lines < MaxHsLines
    /\ hk_line' = Some(line)
    /\ hk_lines' = hk_lines + 1
    /\ UNCHANGED <<hk_pc, hk_written, hk_matched, hk_ret, hk_reader, hk_callbacks, hk_alive>>

\* the adapter exits
Hs_AdapterExit ==
    /\ hk_alive
    /\ hk_alive' = FALSE
    /\ UNCHANGED <<hk_pc, hk_written, hk_matched, hk_ret, hk_reader, hk_callbacks,
                   hk_line, hk_lines>>

\* connect returns the error of the handshake with `?` (agent.rs:184-185):
\* the reader task is not spawned
Hs_Fail(e) ==
    /\ hk_pc' = "failed"
    /\ hk_ret' = Err(e)
    /\ UNCHANGED <<hk_reader, hk_callbacks>>

\* write_jsonrpc_request (agent.rs:794-825) of the request with this method
Hs_Write(at, method, next) ==
    /\ hk_pc = at
    /\ IF hk_alive
       THEN /\ hk_written' = Append(hk_written, method)
            /\ hk_pc' = next
            /\ UNCHANGED <<hk_ret, hk_reader, hk_callbacks>>
       ELSE /\ Hs_Fail("IoError")
            /\ UNCHANGED hk_written
    /\ UNCHANGED <<hk_matched, hk_line, hk_lines, hk_alive>>

\* one round of read_jsonrpc_response's loop (agent.rs:835-874) and, for the
\* line that ends it, the checks of perform_acp_handshake: an "error" member
\* fails the handshake (agent.rs:735-746, 767-778), and so does a session/new
\* response without result.sessionId (agent.rs:781-788); with all of it
\* passed after session/new, connect spawns the reader task and returns
\* (agent.rs:198, 345)
Hs_Read(at, expected_id, next) ==
    /\ hk_pc = at
    /\ IF hk_line = None
       THEN /\ ~hk_alive
            /\ Hs_Fail("ProtocolError")
            /\ UNCHANGED <<hk_matched, hk_line>>
       ELSE /\ hk_line' = None
            /\ IF ~IsExpectedResponse(hk_line[1], expected_id)
               THEN UNCHANGED <<hk_pc, hk_matched, hk_ret, hk_reader, hk_callbacks>>
               ELSE /\ hk_matched' = Append(hk_matched, hk_line[1])
                    /\ IF hk_line[1].error
                       THEN Hs_Fail("ProtocolError")
                       ELSE IF next = "connected" /\ hk_line[1].result # "session"
                       THEN Hs_Fail("ProtocolError")
                       ELSE /\ hk_pc' = next
                            /\ hk_ret' = IF next = "connected" THEN Ok("session")
                                         ELSE hk_ret
                            /\ hk_reader' = IF next = "connected" THEN "running"
                                            ELSE hk_reader
                            /\ UNCHANGED hk_callbacks
    /\ UNCHANGED <<hk_written, hk_lines, hk_alive>>

Hs_WriteInitialize == Hs_Write("write_initialize", "initialize", "read_initialize")

Hs_ReadInitialize == Hs_Read("read_initialize", "init", "write_session_new")

Hs_WriteSessionNew == Hs_Write("write_session_new", "session/new", "read_session_new")

Hs_ReadSessionNew == Hs_Read("read_session_new", "new", "connected")

\* the reader task takes a line (agent.rs:201-325): a session update with
\* params is handed to on_session_update; the end of stdout ends the task
\* with on_connection_lost (agent.rs:328-333)
Hs_ReaderLine ==
    /\ hk_reader = "running"
    /\ IF hk_line = None
       THEN /\ ~hk_alive
            /\ hk_reader' = "finished"
            /\ hk_callbacks' = Append(hk_callbacks, "on_connection_lost")
            /\ UNCHANGED hk_line
       ELSE /\ hk_line' = None
            /\ hk_callbacks' = IF hk_line[1].json /\ hk_line[1].update
                               THEN Append(hk_callbacks, "on_session_update")
                               ELSE hk_callbacks
            /\ UNCHANGED hk_reader
    /\ UNCHANGED <<hk_pc, hk_written, hk_matched, hk_ret, hk_lines, hk_alive>>

\* AcpAgent::send_prompt on the connection that connect returned
\* (agent.rs:351-409): there is none to call it on before connect returns Ok
Hs_SendPrompt ==
    /\ hk_pc = "connected"
    /\ hk_alive
    /\ "session/prompt" \notin {hk_written[i] : i \in 1..Len(hk_written)}
    /\ hk_written' = Append(hk_written, "session/prompt")
    /\ UNCHANGED <<hk_pc, hk_matched, hk_ret, hk_reader, hk_callbacks, hk_line,
                   hk_lines, hk_alive>>

NextHs ==
    \/ \E line \in HsLines : Hs_AdapterWrite(line)
    \/ Hs_AdapterExit
    \/ Hs_WriteInitialize
    \/ Hs_ReadInitialize
    \/ Hs_WriteSessionNew
    \/ Hs_ReadSessionNew
    \/ Hs_ReaderLine
    \/ Hs_SendPrompt

(***************************************************************************)
(* The stdout reader task of a connection, line by line                    *)
(* (protocols/acp/agent.rs:201-333), and handle_request                    *)
(* (agent.rs:481-616).  The permits of the reader are left to the part     *)
(* above; here every request gets its handler at once.                     *)
(***************************************************************************)

\* the "method" member of a line: no string member of that name, the two
\* notification methods, the request methods (one of the two file-read names
\* and one file-write name), and any other method
DpMethods ==
    {"absent", "session/notification", "session/update", "request_permission",
     "terminal/run", "fs.read_text_file", "read_text_file", "fs.write_text_file",
     "other"}

\* the "id" member: none, null, or a string or number
DpIds == {"absent", "null", "value"}

\* the "params" member of a notification: none; a SessionNotification with
\* one of the updates that map_acp_update_to_api_update names, or with
\* another; a bare SessionUpdate; something that is neither, with and
\* without a string sessionId
DpParams ==
    {"absent", "notification", "notification_other", "bare_update",
     "unparsable_with_session", "unparsable"}

\* the "result" member of a response: none, with and without stopReason
DpResults == {"absent", "stop_reason", "no_stop_reason"}

DpLine(utf8, json, method, id, params, command, path, content, result, error) ==
    [utf8 |-> utf8, json |-> json, method |-> method, id |-> id, params |-> params,
     command |-> command, path |-> path, content |-> content,
     result |-> result, error |-> error]

\* the lines an adapter may write: bytes that are not UTF-8, text that is not
\* JSON, notifications, requests with and without their parameters,
\* responses, and objects with neither method nor id
DpLines ==
    {DpLine(u, FALSE, "absent", "absent", "absent", FALSE, FALSE, FALSE, "absent", FALSE) :
        u \in BOOLEAN}
        \cup {DpLine(TRUE, TRUE, m, "absent", p, FALSE, FALSE, FALSE, "absent", FALSE) :
                 m \in DpMethods \ {"absent"}, p \in DpParams}
        \cup {DpLine(TRUE, TRUE, m, i, "absent", c, p, t, "absent", FALSE) :
                 m \in DpMethods \ {"absent"}, i \in DpIds \ {"absent"},
                 c \in BOOLEAN, p \in BOOLEAN, t \in BOOLEAN}
        \cup {DpLine(TRUE, TRUE, "absent", i, "absent", FALSE, FALSE, FALSE, r, e) :
                 i \in DpIds, r \in DpResults, e \in BOOLEAN}

\* a request: the reader hands a line with a method and an id to handle_request
IsRequest(line) == line.json /\ line.method # "absent" /\ line.id # "absent"

NoHandler == [pc |-> "none", id |-> "absent", host_called |-> FALSE,
              response |-> None, replies |-> <<>>]

InitDp ==
    /\ dp_line = None
    /\ dp_lines = 0
    /\ dp_requests = 0
    /\ dp_alive = TRUE
    /\ dp_reader = "running"
    /\ dp_emitted = <<>>
    /\ dp_handler = [n \in 1..MaxDpRequests |-> NoHandler]

\* the adapter writes a line to stdout
Dp_AdapterWrite(line) ==
    /\ dp_alive
    /\ dp_line = None
    /\ dp_lines < MaxDpLines
    /\ IsRequest(line) => dp_requests < MaxDpRequests
    /\ dp_line' = Some(line)
    /\ dp_lines' = dp_lines + 1
    /\ dp_requests' = IF IsRequest(line) THEN dp_requests + 1 ELSE dp_requests
    /\ UNCHANGED <<dp_alive, dp_reader, dp_emitted, dp_handler>>

\* the adapter exits
Dp_AdapterExit ==
    /\ dp_alive
    /\ dp_alive' = FALSE
    /\ UNCHANGED <<dp_line, dp_lines, dp_requests, dp_reader, dp_emitted, dp_handler>>

\* a reader that drops the params it cannot parse
NotificationUpdates_DropUnparsable(line) ==
    IF line.id = "absent"
         /\ line.method \in {"session/notification", "session/update"}
         /\ line.params \in {"notification", "notification_other", "bare_update"}
    THEN <<[update |-> IF line.params = "notification_other" THEN "Raw(update)"
                       ELSE "typed",
            session |-> IF line.params = "bare_update" THEN "connection" ELSE "params"]>>
    ELSE <<>>

\* the on_session_update calls for a line with a method (agent.rs:211-256):
\* for a notification with params, the update that
\* parse_acp_session_notification_params and map_acp_update_to_api_update give
\* (update_mapping.rs:6-52), with the session of the notification or, for a
\* bare update, of the connection; Raw{json: params} when they do not parse,
\* with the sessionId of the params if they hold one
NotificationUpdates(line) ==
    IF line.id = "absent"
         /\ line.method \in {"session/notification", "session/update"}
         /\ line.params # "absent"
    THEN <<[update |-> CASE line.params \in {"notification", "bare_update"} -> "typed"
                         [] line.params = "notification_other" -> "Raw(update)"
                         [] OTHER -> "Raw(params)",
            session |-> IF line.params \in {"notification", "notification_other",
                                            "unparsable_with_session"}
                        THEN "params" ELSE "connection"]>>
    ELSE <<>>

\* a reader that takes every response for the end of a turn
ResponseUpdates_AnyResponse(line) ==
    IF line.id # "absent"
    THEN <<[update |-> "TurnComplete", session |-> "connection"]>>
    ELSE <<>>

\* the on_session_update calls for a line without a method (agent.rs:283-316):
\* TurnComplete, with the session of the connection, for a line with an id
\* and a result that holds stopReason
ResponseUpdates(line) ==
    IF line.id # "absent" /\ line.result = "stop_reason"
    THEN <<[update |-> "TurnComplete", session |-> "connection"]>>
    ELSE <<>>

\* the on_session_update calls the reader makes for a line (agent.rs:203-322)
SessionUpdatesOf(line) ==
    IF ~line.json
    THEN <<>>
    ELSE IF line.method # "absent"
    THEN NotificationUpdates(line)
    ELSE ResponseUpdates(line)

\* jsonrpc_error (agent.rs:651-660) and the result frames of handle_request
JsonRpcError(id, code) == [id |-> id, kind |-> "error", code |-> code]

JsonRpcResult(id) == [id |-> id, kind |-> "result", code |-> "none"]

\* a handle_request that calls the host whatever the parameters are
RequestCheck_NoParams(line) ==
    IF line.method \in {"request_permission", "terminal/run", "fs.read_text_file",
                        "read_text_file", "fs.write_text_file"}
    THEN "call_host"
    ELSE "-32601"

\* handle_request up to its host call (agent.rs:491-603): the method is
\* matched and the parameters it needs are looked for
RequestCheck(line) ==
    CASE line.method = "request_permission" -> "call_host"
      [] line.method = "terminal/run" ->
            IF line.command THEN "call_host" ELSE "-32602"
      [] line.method \in {"fs.read_text_file", "read_text_file"} ->
            IF line.path THEN "call_host" ELSE "-32602"
      [] line.method = "fs.write_text_file" ->
            IF line.path /\ line.content THEN "call_host" ELSE "-32602"
      [] OTHER -> "-32601"

\* one turn of the reader's loop: the line is taken and handled; a request
\* gets its handler task, which runs handle_request up to the host call.
\* For bytes that are not UTF-8 next_line returns Err, which ends the loop of
\* `while let Ok(Some(line))` (agent.rs:201) and so the task.
Dp_ReaderLine ==
    /\ dp_reader = "running"
    /\ dp_line # None
    /\ dp_line' = None
    /\ dp_emitted' = IF dp_line[1].utf8 THEN SessionUpdatesOf(dp_line[1]) ELSE <<>>
    /\ dp_reader' = IF dp_line[1].utf8 THEN dp_reader ELSE "finished"
    /\ IF IsRequest(dp_line[1])
       THEN LET check == RequestCheck(dp_line[1])
                id == dp_line[1].id
            IN  dp_handler' = [dp_handler EXCEPT ![dp_requests] =
                    [pc |-> IF check = "call_host" THEN "host_call" ELSE "send",
                     id |-> id,
                     host_called |-> check = "call_host",
                     response |-> CASE check = "-32601" -> Some(JsonRpcError(id, "-32601"))
                                    [] check = "-32602" -> Some(JsonRpcError(id, "-32602"))
                                    [] OTHER -> None,
                     replies |-> <<>>]]
       ELSE UNCHANGED dp_handler
    /\ UNCHANGED <<dp_lines, dp_requests, dp_alive>>

\* next_line returns Ok(None): the loop and the task end (agent.rs:201, 324-333)
Dp_ReaderEof ==
    /\ dp_reader = "running"
    /\ dp_line = None
    /\ ~dp_alive
    /\ dp_reader' = "finished"
    /\ UNCHANGED <<dp_line, dp_lines, dp_requests, dp_alive, dp_emitted, dp_handler>>

\* the host call of a handler returns (agent.rs:507-519, 535-547, 566-575,
\* 596-603): a result frame, or an error frame of code -32000
Dp_HostReturns(n, ok) ==
    /\ dp_handler[n].pc = "host_call"
    /\ dp_handler' = [dp_handler EXCEPT ![n].pc = "send",
                         ![n].response = Some(IF ok THEN JsonRpcResult(dp_handler[n].id)
                                              ELSE JsonRpcError(dp_handler[n].id, "-32000"))]
    /\ UNCHANGED <<dp_line, dp_lines, dp_requests, dp_alive, dp_reader, dp_emitted>>

\* send_jsonrpc_response (agent.rs:606-608, 662-693): the frame is written to
\* stdin, which fails, with a warning logged, once the adapter has exited
Dp_SendResponse(n) ==
    /\ dp_handler[n].pc = "send"
    /\ dp_handler' = [dp_handler EXCEPT ![n].pc = "done",
                         ![n].replies = IF dp_alive
                                        THEN Append(@, dp_handler[n].response[1])
                                        ELSE @]
    /\ UNCHANGED <<dp_line, dp_lines, dp_requests, dp_alive, dp_reader, dp_emitted>>

NextDp ==
    \/ \E line \in DpLines : Dp_AdapterWrite(line)
    \/ Dp_AdapterExit
    \/ Dp_ReaderLine
    \/ Dp_ReaderEof
    \/ \E n \in 1..MaxDpRequests, ok \in BOOLEAN : Dp_HostReturns(n, ok)
    \/ \E n \in 1..MaxDpRequests : Dp_SendResponse(n)

(***************************************************************************)
(* PluginManager::install, get_status and resolve_bin on the directory of  *)
(* plugin 1 (plugins/manager.rs:226-305, 528-773).  install is followed    *)
(* through its file operations, each of which may fail; nothing in the     *)
(* code removes what an earlier operation left behind.                     *)
(***************************************************************************)

\* what npm install may leave in node_modules: nothing, the tree without the
\* package's package.json, the package without its binary, the package and
\* node_modules/.bin/agent
NodeModulesStates == {"none", "no_package", "no_bin", "complete"}

\* resolve_npm_bin_relative_path's result (plugins/manager.rs:461-466)
NpmBinRelativePath == PathOf(FALSE, <<"node_modules", ".bin", "agent">>)

\* the file system, as far as install has filled the plugin's directory
StatusFs ==
    [dirs |-> {<<>>, <<"plugins">>} \cup
              (IF pd_dir THEN {<<"plugins", "p">>} ELSE {}) \cup
              (IF pd_node_modules # "none"
               THEN {<<"plugins", "p", "node_modules">>,
                     <<"plugins", "p", "node_modules", ".bin">>}
               ELSE {}),
     files |-> (IF pd_package_json THEN {<<"plugins", "p", "package.json">>} ELSE {}) \cup
               (IF pd_node_modules = "complete"
                THEN {<<"plugins", "p", "node_modules", ".bin", "agent">>} ELSE {}) \cup
               (IF pd_metadata THEN {<<"plugins", "p", "install.json">>} ELSE {}),
     links |-> [p \in {} |-> PathOf(FALSE, <<>>)]]

InitStatus ==
    /\ mi_pc = "idle"
    /\ mi_ret = NoResult
    /\ pd_dir = FALSE
    /\ pd_package_json = FALSE
    /\ pd_node_modules = "none"
    /\ pd_metadata = FALSE
    /\ gq_pc = "idle"
    /\ gq_plugin = InvalidPluginId
    /\ gq_status = NoResult
    /\ gq_resolve = NoResult

\* install returns e (a `?`, plugins/manager.rs:534-621)
Mi_Fail(at, e) ==
    /\ mi_pc = at
    /\ mi_pc' = "idle"
    /\ mi_ret' = Err(e)
    /\ UNCHANGED <<pd_dir, pd_package_json, pd_node_modules, pd_metadata,
                   gq_pc, gq_plugin, gq_status, gq_resolve>>

\* validate_plugin_id and plugin_descriptor (plugins/manager.rs:534-537)
Mi_Validate(plugin_id) ==
    /\ mi_pc = "idle"
    /\ mi_pc' = IF validate_plugin_id(plugin_id) THEN "create_dir" ELSE "idle"
    /\ mi_ret' = IF validate_plugin_id(plugin_id) THEN NoResult ELSE Err("InvalidInput")
    /\ UNCHANGED <<pd_dir, pd_package_json, pd_node_modules, pd_metadata,
                   gq_pc, gq_plugin, gq_status, gq_resolve>>

\* std::fs::create_dir_all(&plugin_dir) (plugins/manager.rs:548-556)
Mi_CreateDir ==
    \/ Mi_Fail("create_dir", "IoError")
    \/ /\ mi_pc = "create_dir"
       /\ pd_dir' = TRUE
       /\ mi_pc' = "write_package_json"
       /\ UNCHANGED <<mi_ret, pd_package_json, pd_node_modules, pd_metadata,
                      gq_pc, gq_plugin, gq_status, gq_resolve>>

\* write_plugin_package_json (plugins/manager.rs:558-575, 314-342)
Mi_WritePackageJson ==
    \/ Mi_Fail("write_package_json", "IoError")
    \/ /\ mi_pc = "write_package_json"
       /\ pd_package_json' = TRUE
       /\ mi_pc' = "npm_install"
       /\ UNCHANGED <<mi_ret, pd_dir, pd_node_modules, pd_metadata,
                      gq_pc, gq_plugin, gq_status, gq_resolve>>

\* run_npm_install (plugins/manager.rs:578, 347-405): npm is missing, fails
\* with whatever it wrote so far, or succeeds
Mi_NpmInstall ==
    \/ Mi_Fail("npm_install", "InvalidInput")
    \/ /\ mi_pc = "npm_install"
       /\ \E left \in NodeModulesStates, success \in BOOLEAN :
             /\ pd_node_modules' = IF pd_node_modules = "complete" THEN "complete"
                                   ELSE left
             /\ mi_pc' = IF success THEN "read_version" ELSE "idle"
             /\ mi_ret' = IF success THEN mi_ret ELSE Err("IoError")
       /\ UNCHANGED <<pd_dir, pd_package_json, pd_metadata,
                      gq_pc, gq_plugin, gq_status, gq_resolve>>

\* read_installed_npm_version (plugins/manager.rs:581-589, 410-437)
Mi_ReadVersion ==
    \/ pd_node_modules \in {"none", "no_package"} /\ Mi_Fail("read_version", "IoError")
    \/ /\ mi_pc = "read_version"
       /\ pd_node_modules \in {"no_bin", "complete"}
       /\ mi_pc' = "resolve_npm_bin"
       /\ UNCHANGED <<mi_ret, pd_dir, pd_package_json, pd_node_modules, pd_metadata,
                      gq_pc, gq_plugin, gq_status, gq_resolve>>

\* resolve_npm_bin_relative_path (plugins/manager.rs:591-599, 442-476)
Mi_ResolveNpmBin ==
    \/ /\ ~is_file(StatusFs, plugin_dir(1) \o NpmBinRelativePath.comps)
       /\ Mi_Fail("resolve_npm_bin", "PluginMissingBinPath")
    \/ /\ mi_pc = "resolve_npm_bin"
       /\ is_file(StatusFs, plugin_dir(1) \o NpmBinRelativePath.comps)
       /\ mi_pc' = "write_metadata"
       /\ UNCHANGED <<mi_ret, pd_dir, pd_package_json, pd_node_modules, pd_metadata,
                      gq_pc, gq_plugin, gq_status, gq_resolve>>

\* write_install_metadata and Ok(()) (plugins/manager.rs:607-630, 481-504)
Mi_WriteMetadata ==
    \/ Mi_Fail("write_metadata", "IoError")
    \/ /\ mi_pc = "write_metadata"
       /\ pd_metadata' = TRUE
       /\ mi_pc' = "idle"
       /\ mi_ret' = SendOk
       /\ UNCHANGED <<pd_dir, pd_package_json, pd_node_modules,
                      gq_pc, gq_plugin, gq_status, gq_resolve>>

\* PluginManager::get_status (plugins/manager.rs:226-305): installed and
\* the bin_path of install.json
get_status(fs, plugin_id) ==
    IF ~validate_plugin_id(plugin_id)
    THEN Err("InvalidInput")
    ELSE LET installed == /\ exists(fs, plugin_dir(plugin_id))
                          /\ is_dir(fs, plugin_dir(plugin_id))
         IN  Ok([installed |-> installed,
                 bin_path |-> IF /\ installed
                                 /\ exists(fs, plugin_dir(plugin_id) \o <<"install.json">>)
                              THEN Some(NpmBinRelativePath) ELSE None])

\* a call of get_status
Gq_GetStatus(plugin_id) ==
    /\ gq_pc \in {"idle", "resolved"}
    /\ gq_pc' = "status"
    /\ gq_plugin' = plugin_id
    /\ gq_status' = get_status(StatusFs, plugin_id)
    /\ gq_resolve' = NoResult
    /\ UNCHANGED <<mi_pc, mi_ret, pd_dir, pd_package_json, pd_node_modules, pd_metadata>>

\* the same caller's call of resolve_bin for that plugin
Gq_ResolveBin ==
    /\ gq_pc = "status"
    /\ gq_pc' = "resolved"
    /\ gq_resolve' = resolve_bin(StatusFs, gq_plugin, TRUE, Some(NpmBinRelativePath))
    /\ UNCHANGED <<mi_pc, mi_ret, pd_dir, pd_package_json, pd_node_modules, pd_metadata,
                   gq_plugin, gq_status>>

NextStatus ==
    \/ \E plugin_id \in {1, InvalidPluginId} : Mi_Validate(plugin_id)
    \/ Mi_CreateDir
    \/ Mi_WritePackageJson
    \/ Mi_NpmInstall
    \/ Mi_ReadVersion
    \/ Mi_ResolveNpmBin
    \/ Mi_WriteMetadata
    \/ \E plugin_id \in PluginIds : Gq_GetStatus(plugin_id)
    \/ Gq_ResolveBin

(***************************************************************************)
(* The tokio mutexes of the core and the order in which the operations     *)
(* take them.  An operation is a list of steps, one per `.lock().await`:   *)
(* the step waits for the mutex `want` while the task holds the guards in  *)
(* `held`, holds `want` for the block the guard lives in, drops it, and    *)
(* goes on to one of the steps in `next` ("ret": the function returns and  *)
(* drops every guard it still has).  The mutexes are those of one          *)
(* workspace manager, one agent runtime and its connection, the permission *)
(* hub, the installer and one terminal manager.  Waiting that is not for a *)
(* mutex (a pipe write, a permission decision, a child's exit) happens     *)
(* between the steps or inside a block and is not a step.  Tasks are       *)
(* counted per position, not named.                                        *)
(***************************************************************************)

LockStep(op, at, entry, want, held, next) ==
    [op |-> op, at |-> at, entry |-> entry, want |-> want, held |-> held, next |-> next]

\* an ensure_started that keeps the fast path's session_id guard while it
\* waits for start_lock
EnsureStartedSteps_GuardKept ==
    <<LockStep("ensure_started", "fast_path", TRUE, "session_id", {}, {"ret", "start_lock"}),
      LockStep("ensure_started", "start_lock", FALSE, "start_lock", {"session_id"},
               {"double_check"}),
      LockStep("ensure_started", "double_check", FALSE, "session_id", {"start_lock"},
               {"ret", "set_starting"}),
      LockStep("ensure_started", "set_starting", FALSE, "status", {"start_lock"},
               {"set_errored", "store_connection"}),
      LockStep("ensure_started", "set_errored", FALSE, "status", {"start_lock"}, {"ret"}),
      LockStep("ensure_started", "store_connection", FALSE, "connection", {"start_lock"},
               {"store_session"}),
      LockStep("ensure_started", "store_session", FALSE, "session_id", {"start_lock"},
               {"store_app"}),
      LockStep("ensure_started", "store_app", FALSE, "app", {"start_lock"}, {"set_running"}),
      LockStep("ensure_started", "set_running", FALSE, "status", {"start_lock"}, {"ret"})>>

\* AgentRuntime::ensure_started (runtime/agents.rs:127-251): the guard of
\* start_lock lives to the end of the function, every other guard to the
\* end of its block
EnsureStartedSteps ==
    <<LockStep("ensure_started", "fast_path", TRUE, "session_id", {}, {"ret", "start_lock"}),
      LockStep("ensure_started", "start_lock", FALSE, "start_lock", {}, {"double_check"}),
      LockStep("ensure_started", "double_check", FALSE, "session_id", {"start_lock"},
               {"ret", "set_starting"}),
      LockStep("ensure_started", "set_starting", FALSE, "status", {"start_lock"},
               {"set_errored", "store_connection"}),
      LockStep("ensure_started", "set_errored", FALSE, "status", {"start_lock"}, {"ret"}),
      LockStep("ensure_started", "store_connection", FALSE, "connection", {"start_lock"},
               {"store_session"}),
      LockStep("ensure_started", "store_session", FALSE, "session_id", {"start_lock"},
               {"store_app"}),
      LockStep("ensure_started", "store_app", FALSE, "app", {"start_lock"}, {"set_running"}),
      LockStep("ensure_started", "set_running", FALSE, "status", {"start_lock"}, {"ret"})>>

\* AgentRuntime::send_prompt and stop_turn (runtime/agents.rs:266-287,
\* 302-328) with AcpAgent::send_prompt and cancel_turn, which write under
\* the stdin mutex (protocols/acp/agent.rs:382, 426)
TurnSteps ==
    <<LockStep("send_prompt", "session", TRUE, "session_id", {}, {"ret", "connection"}),
      LockStep("send_prompt", "connection", FALSE, "connection", {}, {"ret", "write"}),
      LockStep("send_prompt", "write", FALSE, "stdin", {}, {"ret"}),
      LockStep("stop_turn", "session", TRUE, "session_id", {}, {"ret", "connection"}),
      LockStep("stop_turn", "connection", FALSE, "connection", {}, {"ret", "write"}),
      LockStep("stop_turn", "write", FALSE, "stdin", {}, {"ret"})>>

\* WorkspaceManager::create_workspace, set_focus, get_focus and
\* delete_workspace (runtime/workspace_manager.rs:48-186)
WorkspaceSteps ==
    <<LockStep("create_workspace", "insert", TRUE, "workspaces", {}, {"ret"}),
      LockStep("set_focus", "lookup", TRUE, "workspaces", {}, {"ret", "store"}),
      LockStep("set_focus", "store", FALSE, "focused_workspace_id", {}, {"ret"}),
      LockStep("get_focus", "read", TRUE, "focused_workspace_id", {}, {"ret"}),
      LockStep("delete_workspace", "remove", TRUE, "workspaces", {}, {"ret", "clear_focus"}),
      LockStep("delete_workspace", "clear_focus", FALSE, "focused_workspace_id", {},
               {"ret"})>>

\* PermissionHub::request and respond (runtime/permissions.rs:80-193)
PermissionSteps ==
    <<LockStep("request", "insert", TRUE, "pending", {},
               {"ret", "emit_failed", "timed_out"}),
      LockStep("request", "emit_failed", FALSE, "pending", {}, {"ret"}),
      LockStep("request", "timed_out", FALSE, "pending", {}, {"ret"}),
      LockStep("respond", "remove", TRUE, "pending", {}, {"ret"})>>

\* PluginInstaller::start_install and run_install_task, which asks the
\* permission hub (runtime/plugin_installer.rs:86-220)
InstallerSteps ==
    <<LockStep("start_install", "mark", TRUE, "installing", {}, {"ret"}),
      LockStep("run_install_task", "insert", TRUE, "pending", {},
               {"emit_failed", "timed_out", "unmark"}),
      LockStep("run_install_task", "emit_failed", FALSE, "pending", {}, {"unmark"}),
      LockStep("run_install_task", "timed_out", FALSE, "pending", {}, {"unmark"}),
      LockStep("run_install_task", "unmark", FALSE, "installing", {}, {"ret"})>>

\* TerminalManager::spawn_run, its wait task and kill
\* (runtime/terminal.rs:94-179)
TerminalSteps ==
    <<LockStep("spawn_run", "insert", TRUE, "runs", {}, {"ret"}),
      LockStep("wait_task", "remove", TRUE, "runs", {}, {"ret"}),
      LockStep("kill", "take", TRUE, "runs", {}, {"ret"})>>

LockSteps ==
    EnsureStartedSteps \o TurnSteps \o WorkspaceSteps \o PermissionSteps \o
    InstallerSteps \o TerminalSteps

StepIds == 1..Len(LockSteps)

\* position 2k-1: a task is at `.lock().await` of step k; position 2k: it
\* is in the block that holds the guard
WaitAt(k) == 2 * k - 1
HoldAt(k) == 2 * k
LockPositions == 1..(2 * Len(LockSteps))
StepAt(i) == LockSteps[(i + 1) \div 2]
IsWaitAt(i) == i % 2 = 1

\* the step of operation op named at
StepNamed(op, at) ==
    CHOOSE k \in StepIds : LockSteps[k].op = op /\ LockSteps[k].at = at

\* the guards a task at position i has
Holds(i) == IF IsWaitAt(i) THEN StepAt(i).held ELSE StepAt(i).held \cup {StepAt(i).want}

\* no task has the guard of mutex m
IsFree(m) == \A i \in LockPositions : lk_at[i] > 0 => m \notin Holds(i)

InitLock ==
    /\ lk_at = [i \in LockPositions |-> 0]
    /\ lk_idle = NumLockTasks

\* a task moves from position i to position j
MoveTask(i, j) ==
    lk_at' = [lk_at EXCEPT ![i] = @ - 1, ![j] = lk_at[j] + 1]

\* a task calls the operation that starts with step k
Lk_Call(k) ==
    /\ LockSteps[k].entry
    /\ lk_idle > 0
    /\ lk_idle' = lk_idle - 1
    /\ lk_at' = [lk_at EXCEPT ![WaitAt(k)] = @ + 1]

\* Mutex::lock().await returns the guard when the mutex is free
Lk_Acquire(k) ==
    /\ lk_at[WaitAt(k)] > 0
    /\ IsFree(LockSteps[k].want)
    /\ MoveTask(WaitAt(k), HoldAt(k))
    /\ UNCHANGED lk_idle

\* the block ends, its guard is dropped, and the task goes on to step at
Lk_Release(k, at) ==
    /\ lk_at[HoldAt(k)] > 0
    /\ at \in LockSteps[k].next \ {"ret"}
    /\ MoveTask(HoldAt(k), WaitAt(StepNamed(LockSteps[k].op, at)))
    /\ UNCHANGED lk_idle

\* the function returns out of the block and drops every guard
Lk_Return(k) ==
    /\ lk_at[HoldAt(k)] > 0
    /\ "ret" \in LockSteps[k].next
    /\ lk_at' = [lk_at EXCEPT ![HoldAt(k)] = @ - 1]
    /\ lk_idle' = lk_idle + 1

NextLock ==
    \/ lk_idle > 0 /\ \E k \in StepIds : Lk_Call(k)
    \/ \E k \in StepIds : lk_at[WaitAt(k)] > 0 /\ Lk_Acquire(k)
    \/ \E k \in StepIds :
          lk_at[HoldAt(k)] > 0 /\ \E at \in LockSteps[k].next : Lk_Release(k, at)
    \/ \E k \in StepIds : lk_at[HoldAt(k)] > 0 /\ Lk_Return(k)

Init == InitAgent /\ InitPerm /\ InitInstall /\ InitTerm /\ InitGate /\ InitReader /\ InitStdin /\ InitManager /\ InitRegistry /\ InitOutput /\ InitCapture /\ InitPath /\ InitBin /\ InitId /\ InitHs /\ InitDp /\ InitStatus /\ InitLock

SpecAgent == Init /\ [][NextAgent /\ UNCHANGED <<permVars, installVars, termVars, gateVars, readerVars, stdinVars, managerVars, registryVars, outputVars, captureVars, pathVars, binVars, idVars, hsVars, dpVars, statusVars, lockVars>>]_vars

\* The tasks and the reader run on the tokio runtime, which polls every task
\* that can make progress; nothing obliges the adapter to write or to exit.
FairSpecAgent ==
    /\ SpecAgent
    /\ \A c \in Callers : WF_vars(EnsureStartedStep(c) /\ UNCHANGED <<permVars, installVars, termVars, gateVars, readerVars, stdinVars, managerVars, registryVars, outputVars, captureVars, pathVars, binVars, idVars, hsVars, dpVars, statusVars, lockVars>>)
    /\ \A c \in Callers : WF_vars(SendPromptStep(c) /\ UNCHANGED <<permVars, installVars, termVars, gateVars, readerVars, stdinVars, managerVars, registryVars, outputVars, captureVars, pathVars, binVars, idVars, hsVars, dpVars, statusVars, lockVars>>)
    /\ \A c \in Callers : WF_vars(StopTurnStep(c) /\ UNCHANGED <<permVars, installVars, termVars, gateVars, readerVars, stdinVars, managerVars, registryVars, outputVars, captureVars, pathVars, binVars, idVars, hsVars, dpVars, statusVars, lockVars>>)
    /\ \A k \in Children : WF_vars(on_connection_lost(k) /\ UNCHANGED <<permVars, installVars, termVars, gateVars, readerVars, stdinVars, managerVars, registryVars, outputVars, captureVars, pathVars, binVars, idVars, hsVars, dpVars, statusVars, lockVars>>)

SpecPerm == Init /\ [][NextPerm /\ UNCHANGED <<agentVars, installVars, termVars, gateVars, readerVars, stdinVars, managerVars, registryVars, outputVars, captureVars, pathVars, binVars, idVars, hsVars, dpVars, statusVars, lockVars>>]_vars

\* a request task that can take a step is polled, and PERMISSION_TIMEOUT passes
\* in finite time; nothing obliges anyone to call respond
FairSpecPerm ==
    /\ SpecPerm
    /\ \A r \in Requests : WF_vars(RequestStep(r) /\ UNCHANGED <<agentVars, installVars, termVars, gateVars, readerVars, stdinVars, managerVars, registryVars, outputVars, captureVars, pathVars, binVars, idVars, hsVars, dpVars, statusVars, lockVars>>)

SpecInstall == Init /\ [][NextInstall /\ UNCHANGED <<agentVars, permVars, termVars, gateVars, readerVars, stdinVars, managerVars, registryVars, outputVars, captureVars, pathVars, binVars, idVars, hsVars, dpVars, statusVars, lockVars>>]_vars

\* the start_install calls and the background tasks are polled; npm install
\* ends; nothing obliges the user to answer, the permission timeout does
FairSpecInstall ==
    /\ SpecInstall
    /\ \A s \in Starts :
          WF_vars(Start_CheckAndMark(s) /\ UNCHANGED <<agentVars, permVars, termVars, gateVars, readerVars, stdinVars, managerVars, registryVars, outputVars, captureVars, pathVars, binVars, idVars, hsVars, dpVars, statusVars, lockVars>>)
    /\ \A s \in Starts :
          WF_vars(InstallTaskStep(s) /\ UNCHANGED <<agentVars, permVars, termVars, gateVars, readerVars, stdinVars, managerVars, registryVars, outputVars, captureVars, pathVars, binVars, idVars, hsVars, dpVars, statusVars, lockVars>>)

SpecTerm == Init /\ [][NextTerm /\ UNCHANGED <<agentVars, permVars, installVars, gateVars, readerVars, stdinVars, managerVars, registryVars, outputVars, captureVars, pathVars, binVars, idVars, hsVars, dpVars, statusVars, lockVars>>]_vars

\* the wait tasks and the handlers are polled, and a pipe reaches its end once
\* the child is gone; nothing obliges the child to exit by itself or anyone
\* to call terminal_kill
FairSpecTerm ==
    /\ SpecTerm
    /\ \A t \in Runs :
          WF_vars(WaitTaskStep(t) /\ UNCHANGED <<agentVars, permVars, installVars, gateVars, readerVars, stdinVars, managerVars, registryVars, outputVars, captureVars, pathVars, binVars, idVars, hsVars, dpVars, statusVars, lockVars>>)
    /\ \A t \in Runs :
          WF_vars(TerminalRunStep(t) /\ UNCHANGED <<agentVars, permVars, installVars, gateVars, readerVars, stdinVars, managerVars, registryVars, outputVars, captureVars, pathVars, binVars, idVars, hsVars, dpVars, statusVars, lockVars>>)

SpecGate == Init /\ [][NextGate /\ UNCHANGED <<agentVars, permVars, installVars, readerVars, stdinVars, managerVars, registryVars, outputVars, captureVars, pathVars, binVars, idVars, hsVars, dpVars, statusVars, lockVars>>]_vars

SpecStdin ==
    Init /\ [][NextStdin /\ UNCHANGED <<agentVars, permVars, installVars, termVars, gateVars, readerVars, managerVars, registryVars, outputVars, captureVars, pathVars, binVars, idVars, hsVars, dpVars, statusVars, lockVars>>]_vars

SpecReader ==
    Init /\ [][NextReader /\ UNCHANGED <<agentVars, permVars, installVars, termVars, gateVars, stdinVars, managerVars, registryVars, outputVars, captureVars, pathVars, binVars, idVars, hsVars, dpVars, statusVars, lockVars>>]_vars

SpecLock ==
    Init /\ [][NextLock /\ UNCHANGED <<agentVars, permVars, installVars, termVars, gateVars, readerVars, stdinVars, managerVars, registryVars, outputVars, captureVars, pathVars, binVars, idVars, hsVars, dpVars, statusVars>>]_vars

SpecStatus ==
    Init /\ [][NextStatus /\ UNCHANGED <<agentVars, permVars, installVars, termVars, gateVars, readerVars, stdinVars, managerVars, registryVars, outputVars, captureVars, pathVars, binVars, idVars, hsVars, dpVars, lockVars>>]_vars

SpecDp ==
    Init /\ [][NextDp /\ UNCHANGED <<agentVars, permVars, installVars, termVars, gateVars, readerVars, stdinVars, managerVars, registryVars, outputVars, captureVars, pathVars, binVars, idVars, hsVars, statusVars, lockVars>>]_vars

SpecHs ==
    Init /\ [][NextHs /\ UNCHANGED <<agentVars, permVars, installVars, termVars, gateVars, readerVars, stdinVars, managerVars, registryVars, outputVars, captureVars, pathVars, binVars, idVars, dpVars, statusVars, lockVars>>]_vars

SpecId ==
    Init /\ [][NextId /\ UNCHANGED <<agentVars, permVars, installVars, termVars, gateVars, readerVars, stdinVars, managerVars, registryVars, outputVars, captureVars, pathVars, binVars, hsVars, dpVars, statusVars, lockVars>>]_vars

SpecBin ==
    Init /\ [][NextBin /\ UNCHANGED <<agentVars, permVars, installVars, termVars, gateVars, readerVars, stdinVars, managerVars, registryVars, outputVars, captureVars, pathVars, idVars, hsVars, dpVars, statusVars, lockVars>>]_vars

SpecPath ==
    Init /\ [][NextPath /\ UNCHANGED <<agentVars, permVars, installVars, termVars, gateVars, readerVars, stdinVars, managerVars, registryVars, outputVars, captureVars, binVars, idVars, hsVars, dpVars, statusVars, lockVars>>]_vars

SpecCapture ==
    Init /\ [][NextCapture /\ UNCHANGED <<agentVars, permVars, installVars, termVars, gateVars, readerVars, stdinVars, managerVars, registryVars, outputVars, pathVars, binVars, idVars, hsVars, dpVars, statusVars, lockVars>>]_vars

SpecOutput ==
    Init /\ [][NextOutput /\ UNCHANGED <<agentVars, permVars, installVars, termVars, gateVars, readerVars, stdinVars, managerVars, registryVars, captureVars, pathVars, binVars, idVars, hsVars, dpVars, statusVars, lockVars>>]_vars

SpecManager ==
    Init /\ [][NextManager /\ UNCHANGED <<agentVars, permVars, installVars, termVars, gateVars, readerVars, stdinVars, registryVars, outputVars, captureVars, pathVars, binVars, idVars, hsVars, dpVars, statusVars, lockVars>>]_vars

SpecRegistry ==
    Init /\ [][NextRegistry /\ UNCHANGED <<agentVars, permVars, installVars, termVars, gateVars, readerVars, stdinVars, managerVars, outputVars, captureVars, pathVars, binVars, idVars, hsVars, dpVars, statusVars, lockVars>>]_vars

SpecMisses ==
    Init /\ [][NextMisses /\ UNCHANGED <<agentVars, installVars, termVars, gateVars, readerVars, stdinVars, outputVars, captureVars, pathVars, binVars, idVars, hsVars, dpVars, statusVars, lockVars>>]_vars

(***************************************************************************)
(* Properties of the AgentRuntime.                                         *)
(***************************************************************************)
EnsureStartedLabels ==
    {"es_fast", "es_lock", "es_dcheck", "es_set_starting", "es_emit_starting",
     "es_resolve", "connect_spawn", "hs_write_initialize", "hs_read_initialize",
     "hs_write_session_new", "hs_read_session_new", "es_store_conn",
     "es_store_session", "es_set_running", "es_emit_running", "es_return_ok",
     "es_set_errored", "es_emit_errored", "es_return_err"}

\* the part of ensure_started that runs under the start lock after the double-check
StartupLabels == EnsureStartedLabels \ {"es_fast", "es_lock", "es_dcheck"}

InEnsureStarted(c) == pc[c] \in EnsureStartedLabels
InStartup(c) == pc[c] \in StartupLabels
NoEnsureStartedInProgress == \A c \in Callers : ~InEnsureStarted(c)

\* an ensure_started call of task c that failed in resolve_bin or connect
FailedStartup(c) == local[c].err # ""

IsPrefix(s, t) ==
    /\ Len(s) <= Len(t)
    /\ \A i \in 1..Len(s) : s[i] = t[i]

\* assignments of Running that follow an assignment of Starting
RunningTransitions ==
    Cardinality({i \in 1..Len(assigned) :
        /\ i > 1
        /\ assigned[i].tag = "Running"
        /\ assigned[i - 1].tag = "Starting"})

EventsTagged(tag) == {i \in 1..Len(events) : events[i].tag = tag}

\* C1: whenever no ensure_started call is in progress, status is Running{s}
\* exactly when session_id is Some(s) and exactly when a connection is stored;
\* with status Stopped, Starting or Errored both are None.
C1_StatusSessionTransport ==
    NoEnsureStartedInProgress =>
        /\ (status.tag = "Running") <=> (session_id # None)
        /\ (session_id # None) <=> (connection # None)
        /\ (status.tag = "Running") => (status.sid = session_id)
        /\ (status.tag \in {"Stopped", "Starting", "Errored"}) =>
               (session_id = None /\ connection = None)

\* a started runtime at rest, after an earlier startup had failed
C1_Witness ==
    /\ NoEnsureStartedInProgress
    /\ status.tag = "Running"
    /\ session_id # None
    /\ \E c \in Callers : pc[c] = "done" /\ FailedStartup(c)

\* C2: at most one task is in the startup section at any time, and all
\* ensure_started calls that return Ok return the same session ID.
C2_OneStartupSameSession ==
    /\ Cardinality({c \in Callers : InStartup(c)}) <= 1
    /\ \A c \in Callers : InStartup(c) => start_lock = Some(c)
    /\ Cardinality(okSids) <= 1

\* one task has returned the session it started while another, which waited on
\* the start lock during that startup, is at the double-check
C2_Witness ==
    \E c1, c2 \in Callers :
        /\ c1 # c2
        /\ pc[c1] = "done" /\ ret[c1].ok /\ ret[c1].val = session_id
        /\ local[c1].sid = session_id
        /\ pc[c2] = "es_dcheck"

\* C3 as stated: every call returns the same session ID, the adapter is spawned
\* and handshaken once, and status goes Starting -> Running once.
C3_SpawnedOnce ==
    /\ Cardinality(okSids) <= 1
    /\ spawned <= 1
    /\ handshakes <= 1
    /\ RunningTransitions <= 1
    /\ (okSids # {}) => (spawned = 1 /\ handshakes = 1)
    /\ (okSids # {} /\ NoEnsureStartedInProgress) => (RunningTransitions = 1)

\* C3, amended: all calls that return Ok return the same session ID, the one
\* stored; at most one handshake completes and status goes Starting -> Running
\* at most once, exactly once when a call has returned Ok and no call is in
\* progress; the adapter that completed the handshake is the last one spawned
\* (attempts that failed before it may each have spawned an adapter).
C3_IdempotentOnceStarted ==
    /\ Cardinality(okSids) <= 1
    /\ handshakes <= 1
    /\ RunningTransitions <= 1
    /\ (okSids # {}) => (handshakes = 1)
    /\ (okSids # {} /\ NoEnsureStartedInProgress) => (RunningTransitions = 1)
    /\ \A k \in Children : (reader[k] # "none") => (spawned = k)
    /\ \A s \in okSids : session_id = Some(s)

\* two calls returned the same session after an earlier attempt had failed
C3_Witness ==
    \E c1, c2 \in Callers :
        /\ c1 # c2
        /\ pc[c1] = "done" /\ ret[c1].ok /\ ret[c1].val # None
        /\ pc[c2] = "done" /\ ret[c2].ok /\ ret[c2].val = ret[c1].val
        /\ spawned = 2
        /\ RunningTransitions = 1

\* C4: when resolve_bin or connect fails, status becomes Errored{message}, one
\* Errored event directly follows the attempt's Starting event, the error is
\* returned, session_id and connection stay None and the start lock is released.
C4_StartupErrors ==
    /\ \A c \in Callers :
          /\ (pc[c] \in {"es_set_errored", "es_emit_errored", "es_return_err"}) =>
                 /\ FailedStartup(c)
                 /\ session_id = None /\ connection = None
                 /\ start_lock = Some(c)
          /\ (pc[c] = "es_return_err") =>
                 /\ status = Errored(local[c].err)
                 /\ Len(events) >= 2
                 /\ events[Len(events)] = Errored(local[c].err)
                 /\ events[Len(events) - 1] = Starting
          /\ (pc[c] = "done" /\ FailedStartup(c)) =>
                 /\ ret[c] = Err(local[c].err)
                 /\ start_lock # Some(c)
    /\ Cardinality(EventsTagged("Errored")) =
          Cardinality({c \in Callers :
              FailedStartup(c) /\ pc[c] \in {"es_return_err", "done"}})
    /\ \A i \in EventsTagged("Errored") : i > 1 /\ events[i - 1] = Starting

\* a connect failure was returned and the next task took the start lock
C4_Witness ==
    \E c1, c2 \in Callers :
        /\ pc[c1] = "done" /\ ret[c1] = Err("ProtocolError")
        /\ status = Errored("ProtocolError")
        /\ start_lock = Some(c2)

\* C5: once an operation has found a connection's transport closed, the
\* runtime no longer stores that connection or its session ID.
C5_ClearedOnDiscovery ==
    \A k \in discovered : connection # Some(k) /\ session_id # Some(k)

\* C6: the status events are emitted in the order the status values were
\* assigned, and at rest the last event names the current status.
C6_EventsFollowAssignments ==
    /\ IsPrefix(events, assigned)
    /\ (NoEnsureStartedInProgress /\ events # <<>>) =>
           events[Len(events)] = status

\* C7: every ensure_started call eventually returns.
C7_EnsureStartedReturns ==
    \A c \in Callers : (pc[c] = "es_fast") ~> (pc[c] = "done")

(***************************************************************************)
(* Properties of the PermissionHub.                                        *)
(***************************************************************************)
TimedOutError == Err("IoError: timed out")

\* the respond calls that returned Ok for operation ID op
OkResponds(op) == {t \in Responds : rs_ret[t] = "Ok" /\ rs_op[t] = Some(op)}

\* the respond calls that took the sender request r registered
TookSenderOf(r) == {t \in Responds : rs_got[t] = Some(r)}

\* the receiver of request r was dropped by the timeout
TimedOut(r) == rq_pc[r] = "rq_timeout_cleanup" \/ rq_ret[r] = TimedOutError

C9_SlotConsumedOnce ==
    \A r \in Requests :
        /\ Len(consumed[r]) <= 1
        /\ \A i \in 1..Len(consumed[r]) :
              consumed[r][i] \in {"respond", "timeout", "emit_failure"}
        /\ rq_pc[r] = "done" =>
              /\ Len(consumed[r]) = 1
              /\ pending[rq_op[r][1]] # Some(r)

\* C10: a request that times out has removed its sender from the map and
\* returns the timed-out IoError with its receiver dropped; a respond call for
\* its ID after the timeout returns OperationNotFound (as long as no later
\* request holds the ID); and every request call returns: a call that has
\* returned stays returned, so from some point on no call is in progress.
C10_TimeoutCleansUp ==
    /\ [](\A r \in Requests :
            rq_ret[r] = TimedOutError =>
                /\ pending[rq_op[r][1]] # Some(r)
                /\ chan[r] = "rx_dropped")
    /\ [][\A r \in Requests :
            (rq_pc[r] = "rq_timeout_cleanup" /\ rq_pc'[r] = "done") =>
                /\ pending'[rq_op[r][1]] = None
                /\ rq_ret'[r] = TimedOutError]_vars
    /\ [][\A r \in Requests, t \in Responds :
            (/\ TimedOut(r)
             /\ rs_pc[t] = "idle" /\ rs_pc'[t] = "done"
             /\ rs_op'[t] = rq_op[r]
             /\ pending[rq_op[r][1]] \in {None, Some(r)}) =>
                rs_ret'[t] = OperationNotFound]_vars
    /\ <>[](\A r \in Requests : rq_pc[r] \in {"idle", "done"})

\* a request returned the timed-out error, and a respond call that took its
\* sender after the receiver was dropped got OperationNotFound
C10_Witness ==
    \E r \in Requests, t \in Responds :
        /\ rq_ret[r] = TimedOutError
        /\ rs_got[t] = Some(r)
        /\ rs_ret[t] = OperationNotFound

\* the respond call whose decision request r returned, if r returned one
AcceptedFor(r) ==
    {t \in Responds :
        /\ rs_got[t] = Some(r)
        /\ rs_ret[t] = "Ok"
        /\ rs_op[t] = rq_op[r]
        /\ rq_ret[r] = Ok(rs_sent[t][1])}

\* C11: a request returns Ok(d) only if a respond call for its ID with decision
\* d found the entry the request had registered and was accepted; a respond
\* call that finds no entry for its ID returns OperationNotFound and delivers
\* nothing, then or later; and a respond call changes neither the entry nor
\* the channel of a request registered under another ID.
C11_NoOvertaking ==
    /\ [](\A r \in Requests : rq_ret[r].ok => AcceptedFor(r) # {})
    /\ [][\A t \in Responds, op \in Ops :
            (rs_pc[t] = "idle" /\ rs_pc'[t] = "done" /\ rs_op'[t] = Some(op)) =>
                /\ pending[op] = None =>
                      (rs_ret'[t] = OperationNotFound /\ chan' = chan)
                /\ \A o \in Ops \ {op} : pending'[o] = pending[o]
                /\ \A r \in Requests :
                      (rq_op[r] # Some(op)) => (chan'[r] = chan[r])]_vars
    /\ [](\A t \in Responds :
            (rs_pc[t] = "done" /\ rs_got[t] = None) =>
                /\ rs_ret[t] = OperationNotFound
                /\ \A r \in Requests : t \notin AcceptedFor(r))

\* a respond call made before the ID was registered got OperationNotFound, and
\* the request that registered the ID afterwards returned the decision of a
\* later respond call
C11_Witness ==
    \E r \in Requests, t1, t2 \in Responds :
        /\ t1 < t2
        /\ rs_op[t1] = rq_op[r] /\ rs_got[t1] = None
        /\ rs_ret[t1] = OperationNotFound
        /\ t2 \in AcceptedFor(r)
        /\ rs_sent[t1] = None

(***************************************************************************)
(* Properties of the PluginInstaller.                                      *)
(***************************************************************************)
\* the install of start call s is in flight: accepted, and its background
\* task has not finished
InFlight(s) == task[s] \notin {"none", "done", "panicked"}

InFlightFor(p) == {s \in Starts : InFlight(s) /\ st_plugin[s] = Some(p)}

\* C12: at most one install task per plugin ID is in flight; a start_install
\* that reaches the check while another install of its plugin is in flight
\* fails with PluginInstallInProgress, spawns no task and changes neither the
\* installing set nor any install result; installs of other plugins do not
\* block it; and a rejected call never has a task or an install.
C12_OneInstallPerPlugin ==
    /\ [](\A p \in Plugins : Cardinality(InFlightFor(p)) <= 1)
    /\ [][\A s \in Starts :
            (st_pc[s] = "si_lock" /\ st_pc'[s] = "done") =>
                IF InFlightFor(st_plugin[s][1]) # {}
                THEN /\ st_ret'[s] = "PluginInstallInProgress"
                     /\ task' = task
                     /\ installing' = installing
                     /\ install_result' = install_result
                ELSE (st_plugin[s][1] \notin installing) =>
                         (st_ret'[s] = "Ok" /\ task'[s] = "spawned")]_vars
    /\ [](\A s \in Starts :
            st_ret[s] \in {"InvalidInput", "PluginInstallInProgress"} =>
                (task[s] = "none" /\ install_result[s] = "none"))

\* an install is running for a plugin while a second start_install for that
\* plugin has been rejected
C12_Witness ==
    \E s1, s2 \in Starts :
        /\ s1 # s2
        /\ st_plugin[s1] = st_plugin[s2]
        /\ task[s1] = "install"
        /\ st_ret[s2] = "PluginInstallInProgress"
        /\ task[s2] = "none"

\* the acp/plugin_status_changed events that carry operation ID s
StatusEventsOf(s) ==
    {i \in 1..Len(plugin_events) : plugin_events[i].operation_id = s}

\* the background task of start call s has ended
TaskEnded(s) == task[s] \in {"done", "panicked"}

\* C13: PluginManager::install runs for an operation only after the user
\* answered AllowOnce to the permission request with its operation ID; after
\* Deny or a permission error no install runs and no status event is emitted;
\* after AllowOnce exactly one status event with the operation ID is emitted,
\* with error set exactly when the install failed.
C13_InstallOnlyWhenAllowed ==
    \A s \in Starts :
        /\ install_result[s] # "none" =>
              (perm[s] = "AllowOnce" /\ decision[s] = "AllowOnce")
        /\ decision[s] \in {"Deny", "Err"} =>
              (install_result[s] = "none" /\ StatusEventsOf(s) = {})
        /\ Cardinality(StatusEventsOf(s)) <= 1
        /\ \A i \in StatusEventsOf(s) :
              /\ decision[s] = "AllowOnce"
              /\ plugin_events[i].error <=> (install_result[s] # "Ok")
        /\ (decision[s] = "AllowOnce" /\ TaskEnded(s)) =>
              Cardinality(StatusEventsOf(s)) = 1

\* C14: every accepted start_install leads to its task removing the plugin ID
\* from the installing set, so that the set holds only plugins with an install
\* in flight; a start_install rejected by validation leaves the set alone.
C14_InstallingSetCleared ==
    /\ \A s \in Starts : (st_ret[s] = "Ok") ~> (task[s] = "done")
    /\ [](\A p \in installing : InFlightFor(p) # {})
    /\ [][\A s \in Starts :
            (st_pc[s] = "idle" /\ st_ret'[s] = "InvalidInput") =>
                installing' = installing]_vars

KillCall == <<kill_ws, kill_tid, kill_ret, kill_effect>>

\* C16: a kill for a terminal ID that has no control (unknown, or exited and
\* removed) or whose sender was already taken returns Ok and changes nothing
\* of the runs, and no run is ever sent more than one kill signal.
C16_KillIdempotent ==
    /\ [](\A t \in Runs : kill_signals[t] <= 1)
    /\ [][\A t \in Runs :
            (/\ KillCall' # KillCall
             /\ kill_ws' = "open"
             /\ kill_tid' = Some(t)
             /\ runs[t] # "some")
            => /\ kill_ret' = "Ok"
               /\ UNCHANGED <<waitVars, tr_pc, tr_ret, loopVars, exited_events,
                              kill_signals, killed_running>>]_vars

\* a second kill for the ID of a run that was already sent its signal
C16_Witness ==
    \E t \in Runs :
        /\ kill_tid = Some(t)
        /\ kill_ws = "open"
        /\ kill_effect = "nothing"
        /\ kill_ret = "Ok"
        /\ runs[t] = "taken"
        /\ kill_signals[t] = 1

\* C20: a command that arrived through terminal/run has a process only if a
\* permission request for it was answered AllowOnce; with Deny, an error or
\* no decision there is no process.
C20_SpawnOnlyWhenAllowed ==
    \A t \in Runs : proc[t] # "none" => tperm[t] = "AllowOnce"

(***************************************************************************)
(* Properties of the stdout reader task.                                   *)
(***************************************************************************)
\* the update frames written and not yet read
UnreadUpdates ==
    Cardinality({i \in DOMAIN stdout_pipe : stdout_pipe[i].kind \in UpdateKinds})

\* the event the n-th update frame of the adapter leads to
ExpectedUpdate(n) ==
    [n |-> n,
     update |-> IF updates_written[n] = "prompt_response"
                THEN "TurnComplete" ELSE "Update"]

\* C17: the acp/session_update events, TurnComplete included, are the update
\* frames the reader has taken from stdout, in the order the adapter wrote
\* them, whatever handlers are in flight and whether or not the reader waits
\* for a permit.
C17_UpdatesInWrittenOrder ==
    /\ Len(session_updates) <= Len(updates_written)
    /\ \A i \in 1..Len(session_updates) : session_updates[i] = ExpectedUpdate(i)
    /\ reader_pc \in {"next_line", "acquire"}
          => Len(session_updates) + UnreadUpdates = Len(updates_written)

\* an update and a TurnComplete emitted while a handler is in flight
C17_Witness ==
    /\ in_flight > 0
    /\ Len(session_updates) >= 2
    /\ session_updates[1].update # session_updates[2].update

\* C18: never more than MAX_INFLIGHT_REQUESTS handlers are in flight; a
\* handler starts only by taking a permit and gives it back when it ends;
\* while the reader waits for a permit that is not there it takes no frame
\* from stdout, emits nothing and starts nothing.
C18_InFlightBounded ==
    /\ [](/\ in_flight <= MAX_INFLIGHT_REQUESTS
          /\ permits + in_flight = MAX_INFLIGHT_REQUESTS)
    /\ [][in_flight' > in_flight => permits > 0 /\ permits' = permits - 1]_vars
    /\ [][in_flight' < in_flight => permits' = permits + 1]_vars
    /\ [][(reader_pc = "acquire" /\ permits = 0)
            => /\ reader_pc' = "acquire"
               /\ in_flight' <= in_flight
               /\ session_updates' = session_updates
               /\ Len(stdout_pipe') >= Len(stdout_pipe)]_vars

\* MAX_INFLIGHT_REQUESTS handlers in flight, one more request waiting for its
\* permit, and a later frame waiting in the pipe
C18_Witness ==
    /\ in_flight = MAX_INFLIGHT_REQUESTS
    /\ reader_pc = "acquire"
    /\ stdout_pipe # <<>>

(***************************************************************************)
(* Properties of the stdin writers.                                        *)
(***************************************************************************)
\* the writer in the middle of its frame: it has the payload in the pipe and
\* not yet the newline
MidFrame(w) == w_pc[w] = "newline"

\* C19: what goes into the adapter's stdin is a sequence of whole lines, each
\* the payload and the newline of one writer, with at most the last line
\* unfinished while its writer is about to write the newline (or has failed
\* on the closed pipe); a writer writes and flushes only as the holder of
\* the stdin mutex.
C19_FramesNeverInterleave ==
    /\ [](\A i \in DOMAIN stdin_bytes :
            IF i % 2 = 1
            THEN /\ stdin_bytes[i].part = "payload"
                 /\ i = Len(stdin_bytes)
                       => MidFrame(stdin_bytes[i].w) \/ stdin_broken
            ELSE /\ stdin_bytes[i].part = "newline"
                 /\ stdin_bytes[i].w = stdin_bytes[i - 1].w)
    /\ [](\A w \in Writers :
            w_pc[w] \in {"payload", "newline", "flush"} => stdin_lock = Some(w))
    /\ [][stdin_bytes' # stdin_bytes
            => /\ stdin_lock # None
               /\ stdin_bytes' = Append(stdin_bytes, stdin_bytes'[Len(stdin_bytes')])
               /\ stdin_lock = Some(stdin_bytes'[Len(stdin_bytes')].w)]_vars

\* a writer of another kind waits for the mutex while one is in the middle of
\* its frame, after a whole frame of a third
C19_Witness ==
    \E w1, w2 \in Writers :
        /\ w_pc[w1] = "newline"
        /\ w_pc[w2] = "lock"
        /\ w_kind[w1] # w_kind[w2]
        /\ Len(stdin_bytes) = 3
        /\ stdin_bytes[1].w \notin {w1, w2}

(***************************************************************************)
(* send_prompt and stop_turn                                               *)
(***************************************************************************)

NotRunningError == Err("ProtocolError: Agent not running")

\* task c wrote a frame of this method in the step
Wrote(c, method) == sent'[c] # sent[c] /\ sent'[c][1].method = method

\* task c is a finished stop_turn call
StopTurnDone(c) == pc[c] = "done" /\ local[c].arg # None

\* C22 as stated: a prompt is written to a transport only while status is
\* Running.
C22_DelegatesOnlyWhenRunning ==
    [][\A c \in Callers : Wrote(c, "session/prompt") => status.tag = "Running"]_vars

\* C22: send_prompt goes on to the transport exactly when a session ID is
\* stored, which is the case when status is Running and also while status is
\* still Starting after ensure_started has stored the connection and the
\* session; with no session stored it returns ProtocolError("Agent not
\* running") at once, and then and in every other failure it has written
\* nothing. A prompt is written only for the stored session, on the stored
\* connection.
C22_DelegatesOnlyWithSession ==
    [][\A c \in Callers :
        /\ (pc[c] = "sp_session" /\ pc'[c] # "sp_session") =>
               IF session_id = None
               THEN pc'[c] = "done" /\ ret'[c] = NotRunningError /\ sent'[c] = None
               ELSE pc'[c] = "sp_connection"
        /\ Wrote(c, "session/prompt") =>
               /\ sent[c] = None
               /\ session_id # None
               /\ status.tag \in {"Starting", "Running"}
               /\ sent'[c][1].sid = session_id[1]
               /\ connection = Some(sent'[c][1].k)
               /\ ret'[c] = SendOk
        /\ (pc'[c] = "done" /\ ~ret'[c].ok) => sent'[c] = None]_vars

\* one send_prompt was refused for want of a session, and another wrote its
\* prompt while status was still Starting
C22_Witness ==
    /\ status.tag = "Starting"
    /\ \E c \in Callers :
        /\ pc[c] = "done" /\ ret[c] = SendOk
        /\ sent[c] # None /\ sent[c][1].method = "session/prompt"
    /\ \E c \in Callers :
        /\ pc[c] = "done" /\ ret[c] = NotRunningError
        /\ local[c].arg = None /\ sent[c] = None

\* C21: stop_turn called with no session stored (the runtime is not running)
\* returns ProtocolError, and called with a session ID other than the stored
\* one returns InvalidInput, in both cases having written nothing; otherwise
\* it writes one session/cancel notification for that session to the stored
\* connection and returns Ok in the same step, with no step of the adapter in
\* between.
C21_StopTurn ==
    [][\A c \in Callers :
        /\ (pc[c] = "idle" /\ local'[c].arg # None) =>
               /\ session_id = None =>
                      pc'[c] = "done" /\ ret'[c] = NotRunningError
               /\ (session_id # None /\ session_id # local'[c].arg) =>
                      pc'[c] = "done" /\ ret'[c] = Err("InvalidInput")
               /\ session_id = local'[c].arg => pc'[c] = "st_connection"
               /\ sent'[c] = None
        /\ Wrote(c, "session/cancel") =>
               /\ sent[c] = None
               /\ sent'[c][1].sid = local[c].arg[1]
               /\ connection = Some(sent'[c][1].k)
               /\ pc'[c] = "done" /\ ret'[c] = SendOk
        /\ (pc[c] = "st_cancel" /\ pc'[c] = "done" /\ ret'[c].ok) =>
               Wrote(c, "session/cancel")
        /\ StopTurnDone(c) => sent'[c] = sent[c]
        /\ (pc'[c] = "done" /\ local'[c].arg # None /\ ~ret'[c].ok) =>
               sent'[c] = None]_vars

\* one stop_turn was refused, before the session existed or for naming
\* another session, and one sent its cancel for the active session
C21_Witness ==
    /\ \E c \in Callers :
        /\ StopTurnDone(c) /\ sent[c] = None
        /\ ret[c] \in {NotRunningError, Err("InvalidInput")}
    /\ \E c \in Callers :
        /\ StopTurnDone(c) /\ ret[c] = SendOk
        /\ sent[c] # None /\ sent[c][1].method = "session/cancel"
        /\ session_id = Some(sent[c][1].sid)

(***************************************************************************)
(* WorkspaceManager and AgentRegistry                                      *)
(***************************************************************************)

\* call t is a delete_workspace that has returned Ok
DeletedOk(t) ==
    m_op[t] = "delete_workspace" /\ m_pc[t] = "done" /\ m_ret[t] = SendOk

\* C23: when delete_workspace(w) returns Ok, w is not among the listed
\* workspaces and get_workspace(w) fails, the focus is None if it was w and
\* is what it was if it was anything else; w stays unlisted and
\* unretrievable from then on.
C23_DeleteWorkspace ==
    [][\A t \in ManagerCalls :
        /\ (m_pc[t] = "delete_clear_focus" /\ m_pc'[t] = "done") =>
               /\ m_ret'[t] = SendOk
               /\ focused' = IF focused = Some(m_w[t]) THEN None ELSE focused
               /\ focused' # Some(m_w[t])
        /\ DeletedOk(t)' =>
               /\ m_w'[t] \notin list_workspaces'
               /\ ~WorkspaceLookup(m_w[t])'.ok]_vars

\* a workspace was focused and then deleted while another one exists, and
\* the focus is None
C23_Witness ==
    /\ \E t, u \in ManagerCalls :
        /\ DeletedOk(t)
        /\ m_op[u] = "set_focus" /\ m_pc[u] = "done" /\ m_ret[u] = SendOk
        /\ m_w[u] = m_w[t]
    /\ focused = None
    /\ workspaces # {}

C25_RuntimeOnDemand ==
    [][/\ agents' # agents => (runtimes' = runtimes /\ made' = made)
       /\ \A a \in AgentIds :
            /\ runtimes'[a] # 0 => a \in list_agents'
            /\ runtimes'[a] # runtimes[a] =>
                   /\ runtimes[a] = 0
                   /\ \E t \in RegistryCalls :
                         /\ g_pc[t] = "er_insert" /\ g_a[t] = a
                         /\ g_pc'[t] = "done" /\ g_ret'[t] = Ok(runtimes'[a])
       /\ \A t \in RegistryCalls :
            (g_pc'[t] = "done" /\ g_ret'[t].ok) =>
                /\ runtimes'[g_a'[t]] # 0
                /\ g_ret'[t] = Ok(runtimes'[g_a'[t]])]_vars

\* two ensure_runtime calls for one agent both found no runtime, both made
\* one, and both returned the same one
C25_Witness ==
    /\ made = 2
    /\ \E t, u \in RegistryCalls :
        /\ t # u /\ g_a[t] = g_a[u]
        /\ g_pc[t] = "done" /\ g_pc[u] = "done"
        /\ g_ret[t].ok /\ g_ret[t] = g_ret[u]

(***************************************************************************)
(* Terminal output                                                         *)
(***************************************************************************)

\* C26: when terminal_run has seen a stream end, the terminal/output events
\* it emitted for the stream are the chunks read from the stream, all of
\* them and in the order read.
C26_EveryChunkEmitted ==
    \A s \in Streams :
        out_closed[s] => out_events[s] = [i \in 1..pipe_read[s] |-> i]

\* the bytes of output received for the stream
OutputBytes == ByteLen(Flatten(cap_output))

\* truncation markers in the buffer
Markers == Cardinality({i \in 1..Len(cap_target) : cap_target[i] = MarkerBytes})

\* C27: the buffer holds one truncation marker if the stream's output is
\* longer than the cap and none if it is not.
C27_MarkerIffOverCap ==
    Markers = IF OutputBytes > OUTPUT_CAPTURE_LIMIT THEN 1 ELSE 0

(***************************************************************************)
(* Path resolution                                                         *)
(***************************************************************************)

\* the path exists and its canonical form is not under the canonical root
Escapes(root, input) ==
    LET base == canonicalize(WorkspaceFs, root)
        target == canonicalize(WorkspaceFs, IF input.abs THEN input.comps
                                            ELSE root \o input.comps)
    IN  base.ok /\ target.ok /\ ~starts_with(target.val[1], base.val[1])

\* C28: a path that resolve_path_in_workspace returns is canonical and under
\* the canonical form of the root, whatever the root, the input and the link
\* are; for an input that escapes the root it returns an error, and
\* read_text_file then returns that error without reading a file; a file
\* that read_text_file reads is under the workspace root.
C28_StaysInRoot ==
    [][/\ (pg_pc = "idle" /\ pg_pc' # "idle") =>
            LET res == IF pg_pc' = "done" THEN pg_ret' ELSE Ok(pg_resolved'[1])
                base == canonicalize(WorkspaceFs, pg_root')
            IN  /\ res.ok =>
                       /\ base.ok
                       /\ canonicalize(WorkspaceFs, res.val[1]) = res
                       /\ starts_with(res.val[1], base.val[1])
                /\ Escapes(pg_root', pg_input') =>
                       pg_pc' = "done" /\ ~pg_ret'.ok /\ pg_opened' = None
       /\ pg_opened' # pg_opened =>
            \/ pg_opened' = None
            \/ pg_pc = "metadata" /\ starts_with(pg_opened'[1], <<"ws">>)]_vars

\* ../etc/passwd, which exists outside the workspace /ws, was refused and
\* nothing was read
C28_Witness ==
    /\ pg_pc = "done"
    /\ pg_root = <<"ws">>
    /\ pg_input = PathOf(FALSE, <<"..", "etc", "passwd">>)
    /\ Escapes(pg_root, pg_input)
    /\ pg_ret = Err("InvalidInput")
    /\ pg_opened = None

\* the path that the stored bin_path names: joined to the plugin's directory
\* unless it is absolute
StoredBin(plugin_id) ==
    IF pl_bin_path[1].abs THEN pl_bin_path[1].comps
    ELSE plugin_dir(plugin_id) \o pl_bin_path[1].comps

\* C29: a path that resolve_bin returns is canonical, is a regular file and
\* lies under the canonical form of the plugin's directory, whatever the
\* stored bin_path and the link are; for a valid plugin id the result is
\* PluginNotInstalled when the directory or install.json is absent, and
\* PluginMissingBinPath when install.json has no bin_path, an empty one or
\* one that names nothing that exists.
C29_BinStaysInPluginDir ==
    rb_pc = "done" =>
        LET dir == plugin_dir(rb_plugin)
            base == canonicalize(PluginFs, dir)
        IN  /\ rb_ret.ok =>
                   /\ base.ok
                   /\ canonicalize(PluginFs, rb_ret.val[1]) = rb_ret
                   /\ starts_with(rb_ret.val[1], base.val[1])
                   /\ rb_ret.val[1] \in PluginFs.files
            /\ ~rb_ret.ok =>
                   rb_ret.err \in {"InvalidInput", "PluginNotInstalled",
                                   "PluginMissingBinPath", "IoError"}
            /\ (validate_plugin_id(rb_plugin) /\
                   (~is_dir(PluginFs, dir) \/ dir \o <<"install.json">> \notin PluginFs.files)) =>
                   rb_ret = Err("PluginNotInstalled")
            /\ (validate_plugin_id(rb_plugin) /\ is_dir(PluginFs, dir) /\ pl_install = "installed") =>
                   ((\/ pl_bin_path = None
                     \/ pl_bin_path = Some(PathOf(FALSE, <<>>))
                     \/ ~exists(PluginFs, StoredBin(rb_plugin)))
                       => rb_ret = Err("PluginMissingBinPath"))

\* the stored bin_path l is a link to /plugins/other, a file that exists
\* outside the plugin's directory /plugins/p, and resolve_bin refused it
C29_Witness ==
    /\ rb_pc = "done"
    /\ rb_plugin = 1
    /\ pl_install = "installed"
    /\ pl_bin_path = Some(PathOf(FALSE, <<"l">>))
    /\ pl_link = Some(PathOf(TRUE, <<"plugins", "other">>))
    /\ canonicalize(PluginFs, StoredBin(1)) = Ok(<<"plugins", "other">>)
    /\ rb_ret = Err("InvalidInput")

\* a lowercase letter or a digit, and the characters an id may hold
IsLowerOrDigit(c) == is_ascii_lowercase(c) \/ is_ascii_digit(c)

IsIdChar(c) == IsLowerOrDigit(c) \/ c = "-"

\* [a-z0-9][a-z0-9-]{0,62}[a-z0-9] with the limit of 64 as MAX_PLUGIN_ID_LEN:
\* a first and a last character that are not hyphens, and up to
\* MAX_PLUGIN_ID_LEN - 2 characters between them
MatchesTwoEndPattern(str) ==
    /\ Len(str) \in 2..MAX_PLUGIN_ID_LEN
    /\ IsLowerOrDigit(str[1])
    /\ IsLowerOrDigit(str[Len(str)])
    /\ \A i \in 2..(Len(str) - 1) : IsIdChar(str[i])

\* 1 to MAX_PLUGIN_ID_LEN characters, each a lowercase letter, a digit or a
\* hyphen, with no hyphen first or last
MatchesOneToMaxPattern(str) ==
    /\ Len(str) \in 1..MAX_PLUGIN_ID_LEN
    /\ \A i \in 1..Len(str) : IsIdChar(str[i])
    /\ str[1] # "-"
    /\ str[Len(str)] # "-"

\* C30 as stated: validate_plugin_id accepts an id exactly when it has a
\* first and a last character from [a-z0-9] with at most 62 of [a-z0-9-]
\* between them, and returns InvalidInput otherwise.
C30_AcceptsIffTwoEndPattern ==
    vp_pc = "done" =>
        /\ vp_ret.ok <=> MatchesTwoEndPattern(vp_id)
        /\ ~vp_ret.ok => vp_ret = Err("InvalidInput")

\* C30, amended: validate_plugin_id accepts an id exactly when it has 1 to
\* 64 characters from [a-z0-9-] and neither starts nor ends with a hyphen,
\* which includes every id of one lowercase letter or digit, and returns
\* InvalidInput for every other string; an accepted id holds no path
\* separator and no dot.
C30_AcceptsIffOneToMax ==
    vp_pc = "done" =>
        /\ vp_ret.ok <=> MatchesOneToMaxPattern(vp_id)
        /\ vp_ret.ok => vp_ret = SendOk
        /\ ~vp_ret.ok => vp_ret = Err("InvalidInput")
        /\ vp_ret.ok => \A i \in 1..Len(vp_id) : vp_id[i] \notin {"/", "\\", "."}
        /\ MatchesTwoEndPattern(vp_id) => vp_ret.ok

\* the id "a", one character long, was accepted
C30_Witness ==
    /\ vp_pc = "done"
    /\ vp_id = <<"a">>
    /\ ~MatchesTwoEndPattern(vp_id)
    /\ vp_ret = SendOk

\* C31: when a respond call returned Ok, the request whose sender it took and
\* which waited for the decision returns Ok with the decision sent, whenever
\* it returns: an accepted decision is not lost to a request that reports a
\* timeout.
C31_AcceptedDecisionDelivered ==
    \A t \in Responds :
        (rs_ret[t] = "Ok" /\ rs_got[t] # None) =>
            LET r == rs_got[t][1]
            IN  (rq_pc[r] = "done" /\ rq_ret[r] # Err("IoError: emit failed"))
                    => rq_ret[r] = Ok(rs_sent[t][1])

\* C32: the focused workspace ID, when set, names a workspace in the map, in
\* every state where no set_focus or delete_workspace call is between its
\* lock of the map and its lock of the focus.
C32_FocusNamesWorkspace ==
    (\A t \in ManagerCalls : m_pc[t] \notin {"set_focus_store", "delete_clear_focus"}) =>
        (focused # None => focused[1] \in workspaces)

\* C33: a request registered under an operation ID that is still pending
\* leaves the earlier request alone: no request's entry is replaced by a
\* later insert or removed by another request's cleanup, and every request
\* that waited returns a decision sent for it or its own timeout.
C33_EarlierRequestUndisturbed ==
    \A r \in Requests :
        /\ \A i \in 1..Len(consumed[r]) :
              consumed[r][i] \notin {"replaced", "other_cleanup"}
        /\ (rq_pc[r] = "done" /\ rq_ret[r] # Err("IoError: emit failed")) =>
              \/ rq_ret[r] = TimedOutError
              \/ \E d \in Decisions : rq_ret[r] = Ok(d)

(***************************************************************************)
(* The handshake                                                           *)
(***************************************************************************)

\* the id that the read at this position waits for
ExpectedAt(at) == IF at = "read_initialize" THEN "init" ELSE "new"

\* C34: the requests are written in the order initialize, session/new,
\* session/prompt; session/new is written only after a response with the id
\* of initialize and no error was read; the reader task runs and connect
\* returns Ok only after a response with the id of session/new, no error and
\* result.sessionId; a line with another id, no id or no JSON leaves the
\* handshake where it is; a response with an error, a session/new response
\* without sessionId and the end of stdout fail connect; and after a failed
\* connect the reader task is not running and no callback was made.
C34_HandshakeOrder ==
    /\ [](/\ Len(hk_written) <= 3
          /\ \A i \in 1..Len(hk_written) :
                hk_written[i] = <<"initialize", "session/new", "session/prompt">>[i]
          /\ Len(hk_written) >= 2 =>
                /\ Len(hk_matched) >= 1
                /\ hk_matched[1].id = "init" /\ ~hk_matched[1].error
          /\ (hk_reader # "none" \/ hk_ret.ok \/ Len(hk_written) >= 3) =>
                /\ hk_pc = "connected"
                /\ Len(hk_matched) = 2
                /\ hk_matched[2].id = "new" /\ ~hk_matched[2].error
                /\ hk_matched[2].result = "session"
          /\ hk_pc = "failed" =>
                ~hk_ret.ok /\ hk_reader = "none" /\ hk_callbacks = <<>>)
    /\ [][(hk_pc \in {"read_initialize", "read_session_new"} /\ hk_line # None
              /\ hk_line' = None) =>
             LET line == hk_line[1] IN
             /\ (~line.json \/ line.id # ExpectedAt(hk_pc)) =>
                   UNCHANGED <<hk_pc, hk_written, hk_matched, hk_ret, hk_reader>>
             /\ (line.json /\ line.id = ExpectedAt(hk_pc) /\ line.error) =>
                   hk_pc' = "failed"
             /\ (line.json /\ line.id = "new" /\ hk_pc = "read_session_new"
                   /\ line.result # "session") =>
                   hk_pc' = "failed"]_vars
    /\ [][(hk_pc \in {"read_initialize", "read_session_new"} /\ hk_pc' # hk_pc
              /\ hk_line = None) =>
             (~hk_alive /\ hk_pc' = "failed")]_vars

\* after a line with another id was skipped, both responses were read,
\* connect returned, a prompt was written and the reader task reported the
\* end of stdout
C34_Witness ==
    /\ hk_pc = "connected"
    /\ hk_lines = 3
    /\ Len(hk_matched) = 2
    /\ hk_written = <<"initialize", "session/new", "session/prompt">>
    /\ hk_reader = "finished"
    /\ hk_callbacks = <<"on_connection_lost">>

(***************************************************************************)
(* The reader task and handle_request, line by line                        *)
(***************************************************************************)

\* the reader takes a line in this step
ReaderTakesLine == dp_line # None /\ dp_line' = None

\* the request lacks a parameter that its method needs
LacksParameter(line) ==
    \/ line.method = "terminal/run" /\ ~line.command
    \/ line.method \in {"fs.read_text_file", "read_text_file"} /\ ~line.path
    \/ line.method = "fs.write_text_file" /\ ~(line.path /\ line.content)

KnownRequestMethods ==
    {"request_permission", "terminal/run", "fs.read_text_file", "read_text_file",
     "fs.write_text_file"}

\* C35: a line with a method and an id gets a handler when the reader takes
\* it, and nothing else does; the handler writes at most one reply, with the
\* id of the request, and exactly one when it ends with the adapter's stdin
\* open: error -32601 for a method it does not know, error -32602 for a
\* missing command, path or content, in both cases without a host call, and
\* otherwise a result when the host call succeeds and an error when it fails.
C35_OneReplyPerRequest ==
    /\ [](\A n \in 1..MaxDpRequests :
            LET h == dp_handler[n] IN
            /\ Len(h.replies) <= 1
            /\ \A i \in 1..Len(h.replies) :
                  h.replies[i].id = h.id /\ h.replies[i] = h.response[1]
            /\ (h.response # None /\ h.response[1].code \in {"-32601", "-32602"})
                  => ~h.host_called
            /\ (h.response # None /\ h.response[1].code \notin {"-32601", "-32602"})
                  => h.host_called)
    /\ [][ReaderTakesLine =>
             IF IsRequest(dp_line[1])
             THEN LET h == dp_handler'[dp_requests]
                      line == dp_line[1]
                  IN  /\ dp_handler[dp_requests] = NoHandler
                      /\ h.id = line.id
                      /\ h.replies = <<>>
                      /\ line.method \notin KnownRequestMethods =>
                            h.pc = "send" /\ h.response = Some(JsonRpcError(line.id, "-32601"))
                      /\ LacksParameter(line) =>
                            h.pc = "send" /\ h.response = Some(JsonRpcError(line.id, "-32602"))
                      /\ (line.method \in KnownRequestMethods /\ ~LacksParameter(line)) =>
                            h.pc = "host_call" /\ h.response = None
             ELSE dp_handler' = dp_handler]_vars
    /\ [][\A n \in 1..MaxDpRequests :
             LET h == dp_handler[n] IN
             /\ (h.pc = "host_call" /\ dp_handler'[n].pc # "host_call") =>
                   /\ dp_handler'[n].pc = "send"
                   /\ dp_handler'[n].response \in
                         {Some(JsonRpcResult(h.id)), Some(JsonRpcError(h.id, "-32000"))}
             /\ (h.pc = "send" /\ dp_handler'[n].pc # "send") =>
                   /\ dp_handler'[n].pc = "done"
                   /\ dp_alive => dp_handler'[n].replies = <<h.response[1]>>
             /\ h.pc = "done" => dp_handler'[n] = h]_vars

\* a request without its parameter was answered with error -32602 under its
\* id, and the host was not called
C35_Witness ==
    \E n \in 1..MaxDpRequests :
        /\ dp_handler[n].pc = "done"
        /\ dp_handler[n].replies = <<JsonRpcError("value", "-32602")>>
        /\ ~dp_handler[n].host_called

\* a session notification: one of the two notification methods and no id
IsSessionNotification(line) ==
    line.json /\ line.id = "absent"
        /\ line.method \in {"session/notification", "session/update"}

\* C36: when the reader takes a session/notification or session/update line
\* that carries params it calls on_session_update exactly once: with the
\* mapped update when the params parse, as a notification or as a bare
\* update, and with Raw holding the params when they do not; no other line
\* with a method leads to a call; and the reader task ends only at the end
\* of stdout or at bytes that are no text, so a line that does not parse
\* does not stop it.
C36_OneUpdatePerNotification ==
    /\ [][ReaderTakesLine =>
             LET line == dp_line[1] IN
             /\ (IsSessionNotification(line) /\ line.params # "absent") =>
                   /\ Len(dp_emitted') = 1
                   /\ line.params \in {"notification", "bare_update"} =>
                         dp_emitted'[1].update = "typed"
                   /\ line.params = "notification_other" =>
                         dp_emitted'[1].update = "Raw(update)"
                   /\ line.params \in {"unparsable", "unparsable_with_session"} =>
                         dp_emitted'[1].update = "Raw(params)"
             /\ (line.json /\ line.method # "absent"
                   /\ ~(IsSessionNotification(line) /\ line.params # "absent")) =>
                   dp_emitted' = <<>>
             /\ line.utf8 => dp_reader' = "running"]_vars
    /\ [][dp_reader' # dp_reader =>
             /\ dp_reader' = "finished"
             /\ \/ dp_line = None /\ ~dp_alive
                \/ dp_line # None /\ ~dp_line[1].utf8]_vars
    /\ [][dp_emitted' # dp_emitted => ReaderTakesLine]_vars

\* params that do not parse were handed on as Raw, and the reader is running
\* with the next line in the pipe
C36_Witness ==
    /\ dp_emitted = <<[update |-> "Raw(params)", session |-> "connection"]>>
    /\ dp_reader = "running"
    /\ dp_lines = 2
    /\ dp_line # None

\* a response: a line with an id and no method
IsResponse(line) == line.json /\ line.method = "absent" /\ line.id # "absent"

\* C37: when the reader takes a response whose result carries stopReason it
\* calls on_session_update exactly once, with TurnComplete and the session
\* ID of the connection; for a response without a result (an error
\* response) and for a result without stopReason it makes no call, and
\* TurnComplete comes from no other line.
C37_TurnCompletePerStopReason ==
    [][ReaderTakesLine =>
          LET line == dp_line[1] IN
          /\ (IsResponse(line) /\ line.result = "stop_reason") =>
                dp_emitted' = <<[update |-> "TurnComplete", session |-> "connection"]>>
          /\ (IsResponse(line) /\ line.result # "stop_reason") => dp_emitted' = <<>>
          /\ (\E i \in 1..Len(dp_emitted') : dp_emitted'[i].update = "TurnComplete") =>
                (IsResponse(line) /\ line.result = "stop_reason")]_vars

\* TurnComplete was emitted for the second line the adapter wrote
C37_Witness ==
    /\ dp_emitted = <<[update |-> "TurnComplete", session |-> "connection"]>>
    /\ dp_lines = 2
    /\ dp_line = None
    /\ dp_reader = "running"

(***************************************************************************)
(* The registry of terminal runs                                           *)
(***************************************************************************)

\* the child of run t has exited, by itself or killed
Finished(t) == proc[t] \in {"exited", "killed"}

\* C38: the control of a run is in the registry from spawn_run on as long as
\* its child runs and until the wait task removes it; it is removed only
\* after the child has exited and the exit was sent on the exit channel, and
\* is not put back; and from some point on the registry holds no control of
\* a run whose child has exited, by itself or killed.
C38_ControlLifecycle ==
    /\ [](\A t \in Runs :
            /\ proc[t] = "running" => runs[t] # "absent"
            /\ runs[t] # "absent" <=>
                  wait_pc[t] \in {"select", "kill_child", "send_exit", "remove"})
    /\ [][\A t \in Runs :
            /\ (runs[t] = "absent" /\ runs'[t] # "absent") =>
                  (proc[t] = "none" /\ proc'[t] = "running")
            /\ (runs[t] # "absent" /\ runs'[t] = "absent") =>
                  (Finished(t) /\ exit_rx[t] # None)]_vars
    /\ <>[](\A t \in Runs : Finished(t) => runs[t] = "absent")

\* a run that was killed and a control that is gone, with the exit reported
C38_Witness ==
    \E t \in Runs :
        /\ proc[t] = "killed"
        /\ exit_rx[t] # None
        /\ wait_pc[t] = "done"
        /\ runs[t] = "absent"

\* C39: whenever get_status reported installed = true for a plugin, the
\* resolve_bin that follows for that plugin does not fail with
\* PluginNotInstalled, whatever install attempts came before.
C39_InstalledResolves ==
    (/\ gq_pc = "resolved"
     /\ gq_status.ok
     /\ gq_status.val[1].installed) => gq_resolve # Err("PluginNotInstalled")

\* the positions at which there is a task
Occupied == {i \in LockPositions : lk_at[i] > 0}

\* a task at position i waits for a mutex that another task has
Waiting(i) ==
    /\ lk_at[i] > 0
    /\ IsWaitAt(i)
    /\ \E j \in Occupied : StepAt(i).want \in Holds(j)

\* the positions at which a task waits for a mutex with a guard in hand
HoldAndWait == {i \in Occupied : Holds(i) # {} /\ Waiting(i)}

\* C40 as stated: no task waits for a mutex while it holds one that another
\* waiting task needs.
C40_NoHoldWhileNeeded ==
    \A i \in HoldAndWait : \A j \in Occupied :
        ~(Waiting(j) /\ StepAt(j).want \in Holds(i))

\* C40: the mutexes cannot deadlock.  No mutex has two guards; there is no
\* set of tasks each of which waits for a mutex held by a task of the set;
\* and the only guard a task has while it waits is that of start_lock, with
\* which it waits for session_id, status, connection or app, mutexes whose
\* holders wait for nothing.
C40_NoDeadlock ==
    LET occ == Occupied
        haw == {i \in occ : Holds(i) # {} /\ IsWaitAt(i) /\
                              \E j \in occ : StepAt(i).want \in Holds(j)}
    IN  /\ \A i \in occ : \A j \in occ :
              Holds(i) \cap Holds(j) # {} => (i = j /\ lk_at[i] = 1)
        /\ \A D \in SUBSET haw \ {{}} :
              \E i \in D : \A j \in D : StepAt(i).want \notin Holds(j)
        /\ \A i \in haw :
              /\ Holds(i) = {"start_lock"}
              /\ StepAt(i).want \in {"session_id", "status", "connection", "app"}
              /\ \A j \in occ : StepAt(i).want \in Holds(j) => ~IsWaitAt(j)

\* ensure_started waits for session_id with the guard of start_lock, which
\* a second ensure_started is waiting for
C40_Witness ==
    \E i \in HoldAndWait :
        /\ StepAt(i).at = "double_check"
        /\ lk_at[WaitAt(StepNamed("ensure_started", "start_lock"))] > 0

=============================================================================
